---- MODULE Spec2Model ----
(***************************************************************************)
(* Model of the useGroqSTT hook (src/src/hooks/useGroqSTT.ts): the         *)
(* voice-activity-gated audio capture and transcription pipeline.          *)
(*                                                                         *)
(* Every run-to-completion piece of JavaScript is one action: the part of  *)
(* startListening before its await, the part after it, stopListening, one  *)
(* animation-frame callback (checkVolume), the task in which a stopped     *)
(* MediaRecorder fires dataavailable and stop, the continuation of         *)
(* processAudio after its fetch, resetTranscript and the unmount effect.   *)
(* Tasks of different sources (recorder events, getUserMedia resolution,   *)
(* animation frames, fetch completion) are not ordered by the platform and *)
(* interleave freely.                                                      *)
(*                                                                         *)
(* Each call of startListening gets an identity i in Calls; stream[i],     *)
(* ctx[i], srcNode[i], anNode[i], rec[i] and frame[i] are the platform     *)
(* objects that call created (the objects its closures capture), the       *)
(* ...Ref variables are the hook's refs, which hold the identity of the    *)
(* object they point to or NULL.                                           *)
(***************************************************************************)
EXTENDS Integers, Sequences, FiniteSets, TLC

\* ------------------------------------------------------------------ bounds
MaxCalls == 2          \* startListening calls in one behaviour
MaxChat == 4           \* calls of the conversation service in one behaviour
MaxInFlight == 2       \* conversation calls that overlap
MaxChunks == 2         \* chunks with content in one streamed reply
MaxLines == 3          \* lines in the body of one streamed reply
MaxReads == 3          \* reads that the body of one streamed reply takes
MaxVision == 3         \* analyzeImageWithGemini calls in one behaviour
MaxSpeak == 3          \* speak() calls of the browser speech hook
MaxTextLen == 4        \* characters of a text split into sentences
MaxEdge == 3           \* speak() calls of the server speech hook
MaxPolls == 3          \* runs of poll of one sensor poller
MaxElapsed == 2000     \* milliseconds of wall-clock time that may pass
StartTime == 10000     \* Date.now() when the hook is mounted

\* ------------------------------------------------------- program constants
VAD_THRESHOLD == 20
SILENCE_DURATION == 1500
MinClipSize == 1000
HistoryLimit == 7      \* conversationHistory.length > 7
KeepLast == 6          \* conversationHistory.slice(-6)

NULL == 0
Calls == 1..MaxCalls

\* inputs
ClockSteps == {500, 1000}            \* time between two events
Energies == {0, 20, 21}              \* mean of getByteFrequencyData
ChunkSizes == {0, 500, 1000, 5000}   \* event.data.size of the final chunk
Whitespace == {" ", "\n"}
Texts == { <<>>, <<" ">>, <<"a">>, <<" ", "a", " ", "b", "\n">> }
SetupOutcomes == {"ok", "ctxThrow", "recThrow", "startThrow"}
FetchOutcomes == {"ok", "noText", "badJson", "http", "network"}

VARIABLES
  \* React state
  isListening, transcript, error,
  \* refs
  mediaRecorderRef, audioChunksRef, audioContextRef, analyserRef, sourceRef,
  animationFrameRef, lastSpeechTimeRef, isSpeechDetectedRef,
  \* platform objects, by creating call
  stream, ctx, srcNode, anNode, rec, frame,
  \* requests in flight
  call, uploads,
  \* environment
  now, apiKey, mounted, nCalls,
  \* history
  recStops, finals, uploadCnt, trig, prior, heard, heardAt, lastOp,
  \* the conversation service (src/unnamed/part_000)
  conversationHistory, chat, nChat, plain, thrown,
  \* one streamed reply read line by line (src/unnamed/part_000)
  sse,
  \* the image service (src/services/geminiVisionService.ts)
  vision,
  \* the browser speech hook (src/src/hooks/useTextToSpeech.ts)
  tts,
  \* the server speech hook (src/public/raspberry-pi/start_aera.sh)
  edge,
  \* one sensor poller (src/unnamed/part_001)
  poller

vars == << isListening, transcript, error, mediaRecorderRef, audioChunksRef,
           audioContextRef, analyserRef, sourceRef, animationFrameRef,
           lastSpeechTimeRef, isSpeechDetectedRef, stream, ctx, srcNode,
           anNode, rec, frame, call, uploads, now, apiKey, mounted, nCalls,
           recStops, finals, uploadCnt, trig, prior, heard, heardAt, lastOp,
           conversationHistory, chat, nChat, plain, thrown, sse, vision,
           tts, edge, poller >>

\* ----------------------------------------------------------------- helpers
Cap2(n) == IF n > 2 THEN 2 ELSE n

RECURSIVE BlobSize(_)
\* new Blob(chunks).size
BlobSize(chunks) ==
  IF chunks = <<>> THEN 0 ELSE Head(chunks).size + BlobSize(Tail(chunks))

RECURSIVE TrimStart(_)
TrimStart(t) ==
  IF t # <<>> /\ Head(t) \in Whitespace THEN TrimStart(Tail(t)) ELSE t

RECURSIVE TrimEnd(_)
TrimEnd(t) ==
  IF t # <<>> /\ t[Len(t)] \in Whitespace
  THEN TrimEnd(SubSeq(t, 1, Len(t) - 1)) ELSE t

\* String.prototype.trim
Trim(t) == TrimEnd(TrimStart(t))

\* MediaRecorder.state
recorderState(r) == IF r = "recording" THEN "recording" ELSE "inactive"

\* The mutable state the handlers work on, as one record; fx collects the
\* effects of the handler that is running.
Cur ==
  [ isListening |-> isListening, transcript |-> transcript, error |-> error,
    mediaRecorderRef |-> mediaRecorderRef, audioChunksRef |-> audioChunksRef,
    audioContextRef |-> audioContextRef, analyserRef |-> analyserRef,
    sourceRef |-> sourceRef, animationFrameRef |-> animationFrameRef,
    lastSpeechTimeRef |-> lastSpeechTimeRef,
    isSpeechDetectedRef |-> isSpeechDetectedRef,
    stream |-> stream, ctx |-> ctx, srcNode |-> srcNode, anNode |-> anNode,
    rec |-> rec, frame |-> frame, uploads |-> uploads,
    recStops |-> recStops, finals |-> finals, uploadCnt |-> uploadCnt,
    fx |-> {} ]

Commit(s) ==
  /\ isListening' = s.isListening
  /\ transcript' = s.transcript
  /\ error' = s.error
  /\ mediaRecorderRef' = s.mediaRecorderRef
  /\ audioChunksRef' = s.audioChunksRef
  /\ audioContextRef' = s.audioContextRef
  /\ analyserRef' = s.analyserRef
  /\ sourceRef' = s.sourceRef
  /\ animationFrameRef' = s.animationFrameRef
  /\ lastSpeechTimeRef' = s.lastSpeechTimeRef
  /\ isSpeechDetectedRef' = s.isSpeechDetectedRef
  /\ stream' = s.stream
  /\ ctx' = s.ctx
  /\ srcNode' = s.srcNode
  /\ anNode' = s.anNode
  /\ rec' = s.rec
  /\ frame' = s.frame
  /\ uploads' = s.uploads
  /\ recStops' = s.recStops
  /\ finals' = s.finals
  /\ uploadCnt' = s.uploadCnt

\* The record of the last handler run: its name, the session it belongs to,
\* its input and its effects.
NoInput == [outcome |-> "none", text |-> <<>>, size |-> 0]

OpIn(name, i, stale, inp, s) ==
  [op |-> name, sess |-> i, stale |-> stale, inp |-> inp, fx |-> s.fx]

Op(name, i, stale, s) == OpIn(name, i, stale, NoInput, s)

\* ------------------------------------------------------------ the handlers

\* MediaRecorder.stop(): the recorder becomes inactive at once and a task is
\* queued that fires dataavailable and then stop.
recorderStop(s, r) ==
  [s EXCEPT !.rec[r] = "stopping",
            !.recStops[r] = Cap2(@ + 1),
            !.fx = @ \cup {"recStop"}]

\* cleanupAudio that also clears the speech flag
cleanupAudio_resetsSpeech(s) ==
  LET a == IF s.mediaRecorderRef # NULL
              /\ recorderState(s.rec[s.mediaRecorderRef]) # "inactive"
           THEN recorderStop(s, s.mediaRecorderRef) ELSE s
      b == IF a.animationFrameRef # NULL
           THEN [a EXCEPT !.frame[a.animationFrameRef] = FALSE,
                          !.animationFrameRef = NULL]
           ELSE a
      c == IF b.sourceRef # NULL
           THEN [b EXCEPT !.srcNode[b.sourceRef] = "disconnected",
                          !.sourceRef = NULL]
           ELSE b
      d == IF c.analyserRef # NULL
           THEN [c EXCEPT !.anNode[c.analyserRef] = "disconnected",
                          !.analyserRef = NULL]
           ELSE c
      e == [d EXCEPT !.isSpeechDetectedRef = FALSE]
  IN IF e.audioContextRef # NULL /\ e.ctx[e.audioContextRef] # "closed"
     THEN [e EXCEPT !.ctx[e.audioContextRef] = "closed",
                    !.audioContextRef = NULL]
     ELSE e

\* cleanupAudio that stops the recorder whatever its state
cleanupAudio_noStateCheck(s) ==
  LET a == IF s.mediaRecorderRef # NULL
           THEN recorderStop(s, s.mediaRecorderRef) ELSE s
      b == IF a.animationFrameRef # NULL
           THEN [a EXCEPT !.frame[a.animationFrameRef] = FALSE,
                          !.animationFrameRef = NULL]
           ELSE a
      c == IF b.sourceRef # NULL
           THEN [b EXCEPT !.srcNode[b.sourceRef] = "disconnected",
                          !.sourceRef = NULL]
           ELSE b
      d == IF c.analyserRef # NULL
           THEN [c EXCEPT !.anNode[c.analyserRef] = "disconnected",
                          !.analyserRef = NULL]
           ELSE c
  IN IF d.audioContextRef # NULL /\ d.ctx[d.audioContextRef] # "closed"
     THEN [d EXCEPT !.ctx[d.audioContextRef] = "closed",
                    !.audioContextRef = NULL]
     ELSE d

cleanupAudio(s) ==
  LET a == IF s.mediaRecorderRef # NULL
              /\ recorderState(s.rec[s.mediaRecorderRef]) # "inactive"
           THEN recorderStop(s, s.mediaRecorderRef) ELSE s
      b == IF a.animationFrameRef # NULL
           THEN [a EXCEPT !.frame[a.animationFrameRef] = FALSE,
                          !.animationFrameRef = NULL]
           ELSE a
      c == IF b.sourceRef # NULL
           THEN [b EXCEPT !.srcNode[b.sourceRef] = "disconnected",
                          !.sourceRef = NULL]
           ELSE b
      d == IF c.analyserRef # NULL
           THEN [c EXCEPT !.anNode[c.analyserRef] = "disconnected",
                          !.analyserRef = NULL]
           ELSE c
  IN IF d.audioContextRef # NULL /\ d.ctx[d.audioContextRef] # "closed"
     THEN [d EXCEPT !.ctx[d.audioContextRef] = "closed",
                    !.audioContextRef = NULL]
     ELSE d

\* stopListening without the check of the recorder's state
stopListening_noStateCheck(s) ==
  LET a == IF s.mediaRecorderRef # NULL
           THEN recorderStop(s, s.mediaRecorderRef) ELSE s
  IN IF a.animationFrameRef # NULL
     THEN [a EXCEPT !.frame[a.animationFrameRef] = FALSE,
                    !.animationFrameRef = NULL]
     ELSE a

stopListening(s) ==
  LET a == IF s.mediaRecorderRef # NULL
              /\ recorderState(s.rec[s.mediaRecorderRef]) # "inactive"
           THEN recorderStop(s, s.mediaRecorderRef) ELSE s
  IN IF a.animationFrameRef # NULL
     THEN [a EXCEPT !.frame[a.animationFrameRef] = FALSE,
                    !.animationFrameRef = NULL]
     ELSE a

\* checkVolume whose silence test does not ask whether speech was detected
checkVolume_noSpeechGuard(s, i, average, t) ==
  IF s.analyserRef = NULL THEN s
  ELSE
    LET m == [s EXCEPT !.fx = @ \cup {"measure"}]
        a == IF average > VAD_THRESHOLD
             THEN [m EXCEPT !.isSpeechDetectedRef = TRUE,
                            !.lastSpeechTimeRef = t]
             ELSE m
    IN IF t - a.lastSpeechTimeRef > SILENCE_DURATION
       THEN stopListening([a EXCEPT !.fx = @ \cup {"autoStop"}])
       ELSE [a EXCEPT !.frame[i] = TRUE,
                      !.animationFrameRef = i,
                      !.fx = @ \cup {"resched"}]

\* checkVolume that stops as soon as the silence lasts SILENCE_DURATION
checkVolume_geSilence(s, i, average, t) ==
  IF s.analyserRef = NULL THEN s
  ELSE
    LET m == [s EXCEPT !.fx = @ \cup {"measure"}]
        a == IF average > VAD_THRESHOLD
             THEN [m EXCEPT !.isSpeechDetectedRef = TRUE,
                            !.lastSpeechTimeRef = t]
             ELSE m
    IN IF a.isSpeechDetectedRef
          /\ t - a.lastSpeechTimeRef >= SILENCE_DURATION
       THEN stopListening([a EXCEPT !.fx = @ \cup {"autoStop"}])
       ELSE [a EXCEPT !.frame[i] = TRUE,
                      !.animationFrameRef = i,
                      !.fx = @ \cup {"resched"}]

\* checkVolume whose tick also flips isListening
checkVolume_flipsListening(s, i, average, t) ==
  IF s.analyserRef = NULL THEN s
  ELSE
    LET m == [s EXCEPT !.fx = @ \cup {"measure"}]
        a == IF average > VAD_THRESHOLD
             THEN [m EXCEPT !.isSpeechDetectedRef = TRUE,
                            !.lastSpeechTimeRef = t]
             ELSE m
    IN IF a.isSpeechDetectedRef
          /\ t - a.lastSpeechTimeRef > SILENCE_DURATION
       THEN stopListening([a EXCEPT !.fx = @ \cup {"autoStop"}])
       ELSE [a EXCEPT !.frame[i] = TRUE,
                      !.animationFrameRef = i,
                      !.isListening = ~@,
                      !.fx = @ \cup {"resched"}]

\* checkVolume of the loop started by call i, run at time t with the
\* analyser reporting the mean energy average.
checkVolume(s, i, average, t) ==
  IF s.analyserRef = NULL THEN s
  ELSE
    LET m == [s EXCEPT !.fx = @ \cup {"measure"}]
        a == IF average > VAD_THRESHOLD
             THEN [m EXCEPT !.isSpeechDetectedRef = TRUE,
                            !.lastSpeechTimeRef = t]
             ELSE m
    IN IF a.isSpeechDetectedRef
          /\ t - a.lastSpeechTimeRef > SILENCE_DURATION
       THEN stopListening([a EXCEPT !.fx = @ \cup {"autoStop"}])
       ELSE [a EXCEPT !.frame[i] = TRUE,
                      !.animationFrameRef = i,
                      !.fx = @ \cup {"resched"}]

\* processAudio that does not look for the key
processAudio_noKeyCheck(s, i, size) ==
  [s EXCEPT !.uploads = @ \cup {[sess |-> i, size |-> size,
                                 epoch |-> nCalls]},
            !.uploadCnt[i] = Cap2(@ + 1),
            !.fx = @ \cup {"fetch"}]

\* processAudio up to its await: the clip of recorder i, size bytes.
processAudio(s, i, size) ==
  IF ~apiKey
  THEN [s EXCEPT !.error = "Missing API Key", !.fx = @ \cup {"setError"}]
  ELSE [s EXCEPT !.uploads = @ \cup {[sess |-> i, size |-> size,
                                      epoch |-> nCalls]},
                 !.uploadCnt[i] = Cap2(@ + 1),
                 !.fx = @ \cup {"fetch"}]

\* processAudio that stores the text as received
processAudioDone_noTrim(s, outcome, text) ==
  IF outcome \in {"http", "network", "badJson"}
  THEN [s EXCEPT !.error = "Transcription failed",
                 !.fx = @ \cup {"setError"}]
  ELSE IF outcome = "ok" /\ Len(text) > 0 /\ Len(Trim(text)) > 0
       THEN [s EXCEPT !.transcript = text,
                      !.fx = @ \cup {"setTranscript"}]
       ELSE s

\* processAudio that treats an empty result as a failure
processAudioDone_errorOnEmpty(s, outcome, text) ==
  IF outcome \in {"http", "network", "badJson"}
  THEN [s EXCEPT !.error = "Transcription failed",
                 !.fx = @ \cup {"setError"}]
  ELSE IF outcome = "ok" /\ Len(text) > 0 /\ Len(Trim(text)) > 0
       THEN [s EXCEPT !.transcript = Trim(text),
                      !.fx = @ \cup {"setTranscript"}]
       ELSE [s EXCEPT !.error = "Transcription failed",
                      !.fx = @ \cup {"setError"}]

\* processAudio that clears the transcript when the upload fails
processAudioDone_clearsOnFailure(s, outcome, text) ==
  IF outcome \in {"http", "network", "badJson"}
  THEN [s EXCEPT !.error = "Transcription failed",
                 !.transcript = <<>>,
                 !.fx = @ \cup {"setError"}]
  ELSE IF outcome = "ok" /\ Len(text) > 0 /\ Len(Trim(text)) > 0
       THEN [s EXCEPT !.transcript = Trim(text),
                      !.fx = @ \cup {"setTranscript"}]
       ELSE s

\* processAudio after its await.
processAudioDone(s, outcome, text) ==
  IF outcome \in {"http", "network", "badJson"}
  THEN [s EXCEPT !.error = "Transcription failed",
                 !.fx = @ \cup {"setError"}]
  ELSE IF outcome = "ok" /\ Len(text) > 0 /\ Len(Trim(text)) > 0
       THEN [s EXCEPT !.transcript = Trim(text),
                      !.fx = @ \cup {"setTranscript"}]
       ELSE s

ondataavailable(s, i, size) ==
  IF size > 0
  THEN [s EXCEPT !.audioChunksRef = Append(@, [rec |-> i, size |-> size]),
                 !.fx = @ \cup {"push"}]
  ELSE s

\* onstop that uploads when either condition holds
onstop_eitherCondition(s, i) ==
  LET blob == BlobSize(s.audioChunksRef)
      a == [s EXCEPT !.stream[i] = "stopped",
                     !.isListening = FALSE,
                     !.rec[i] = "stopped",
                     !.finals[i] = Cap2(@ + 1)]
  IN IF a.isSpeechDetectedRef \/ blob > MinClipSize
     THEN processAudio(a, i, blob)
     ELSE a

\* mediaRecorder.onstop of the recorder of call i (its closure holds stream i)
onstop(s, i) ==
  LET blob == BlobSize(s.audioChunksRef)
      a == [s EXCEPT !.stream[i] = "stopped",
                     !.isListening = FALSE,
                     !.rec[i] = "stopped",
                     !.finals[i] = Cap2(@ + 1)]
  IN IF a.isSpeechDetectedRef /\ blob > MinClipSize
     THEN processAudio(a, i, blob)
     ELSE a

\* startListening up to its await
startListeningBegin(s) ==
  [cleanupAudio(s) EXCEPT !.error = "null", !.transcript = <<>>]

\* catch block that reports nothing
startListeningCatch_noError(s) ==
  [s EXCEPT !.isListening = FALSE]

startListeningCatch(s) ==
  [s EXCEPT !.error = "Microphone access denied",
            !.isListening = FALSE,
            !.fx = @ \cup {"setError"}]

\* startListening after getUserMedia resolved with the stream of call i;
\* outcome says which constructor or call throws, if any.
startListeningResume(s, i, outcome, average, t) ==
  LET a == [s EXCEPT !.stream[i] = "live"]
      b == [a EXCEPT !.ctx[i] = "running",
                     !.anNode[i] = "connected",
                     !.srcNode[i] = "connected",
                     !.audioContextRef = i,
                     !.analyserRef = i,
                     !.sourceRef = i,
                     !.lastSpeechTimeRef = 0,
                     !.isSpeechDetectedRef = FALSE,
                     !.fx = @ \cup {"reset"}]
      c == [b EXCEPT !.rec[i] = "new",
                     !.mediaRecorderRef = i,
                     !.audioChunksRef = <<>>]
      d == [c EXCEPT !.rec[i] = "recording", !.isListening = TRUE]
  IN CASE outcome = "ctxThrow" -> startListeningCatch(a)
       [] outcome = "recThrow" -> startListeningCatch(b)
       [] outcome = "startThrow" -> startListeningCatch(c)
       [] OTHER -> checkVolume(d, i, average, t)

resetTranscript(s) == [s EXCEPT !.transcript = <<>>, !.error = "null"]

\* ------------------------------------------------------------------- Init
Init ==
  /\ isListening = FALSE
  /\ transcript = <<>>
  /\ error = "null"
  /\ mediaRecorderRef = NULL
  /\ audioChunksRef = <<>>
  /\ audioContextRef = NULL
  /\ analyserRef = NULL
  /\ sourceRef = NULL
  /\ animationFrameRef = NULL
  /\ lastSpeechTimeRef = 0
  /\ isSpeechDetectedRef = FALSE
  /\ stream = [i \in Calls |-> "none"]
  /\ ctx = [i \in Calls |-> "none"]
  /\ srcNode = [i \in Calls |-> "none"]
  /\ anNode = [i \in Calls |-> "none"]
  /\ rec = [i \in Calls |-> "none"]
  /\ frame = [i \in Calls |-> FALSE]
  /\ call = [i \in Calls |-> "idle"]
  /\ uploads = {}
  /\ now = StartTime
  /\ apiKey \in BOOLEAN
  /\ mounted = TRUE
  /\ nCalls = 0
  /\ recStops = [i \in Calls |-> 0]
  /\ finals = [i \in Calls |-> 0]
  /\ uploadCnt = [i \in Calls |-> 0]
  /\ trig = [i \in Calls |-> {}]
  /\ prior = [i \in Calls |-> NULL]
  /\ heard = FALSE
  /\ heardAt = 0
  /\ lastOp = [op |-> "init", sess |-> NULL, stale |-> FALSE,
               inp |-> NoInput, fx |-> {}]
  /\ conversationHistory = <<>>
  /\ chat = [c \in 1..MaxChat |->
              [kind |-> "none", pc |-> "idle", requests |-> 0,
               fullResponse |-> <<>>, chunks |-> 0]]
  /\ thrown = [kind |-> "none", statusCode |-> 0, isRetryable |-> FALSE]
  /\ nChat = 0
  /\ plain = TRUE
  /\ sse = [pc |-> "idle", response |-> <<>>, body |-> <<>>, lines |-> <<>>,
            fullResponse |-> <<>>, yielded |-> <<>>, seen |-> <<>>,
            doneAt |-> -1, reads |-> 0]
  /\ vision = [c \in 1..MaxVision |->
                [pc |-> "idle", imageUrl |-> <<>>, result |-> <<>>,
                 err |-> [kind |-> "none", message |-> "", statusCode |-> 0,
                          isRetryable |-> FALSE]]]
  /\ tts = [mounted |-> FALSE, isSupported |-> FALSE, isSpeaking |-> FALSE,
            speechQueue |-> <<>>, isProcessingQueue |-> FALSE,
            synth |-> <<>>, late |-> {}, nSpeak |-> 0, text |-> <<>>,
            stopped |-> FALSE]
  /\ edge = [isSpeaking |-> FALSE, audioRef |-> NULL,
             abortControllerRef |-> NULL, latest |-> NULL,
             stopped |-> FALSE,
             c |-> [i \in 1..MaxEdge |->
                     [pc |-> "idle", signal |-> "none", audio |-> "none"]]]
  /\ poller = [mode |-> "none", isPolling |-> FALSE, timeoutId |-> NULL,
               cleaned |-> FALSE,
               pc |-> [p \in 1..MaxPolls |-> "idle"],
               abortTimer |-> [p \in 1..MaxPolls |-> FALSE],
               result |-> [rejected |-> FALSE, data |-> [none |-> TRUE]],
               lastData |-> [none |-> TRUE]]

\* ---------------------------------------------------------------- actions
Env ==
  UNCHANGED << now, apiKey, conversationHistory, chat, nChat, plain, thrown,
               sse, vision, tts, edge, poller >>

\* The caller calls startListening: cleanup, clear error and transcript,
\* request the microphone.
StartListening ==
  /\ mounted
  /\ nCalls < MaxCalls
  /\ LET i == nCalls + 1
         s == startListeningBegin(Cur)
     IN /\ Commit(s)
        /\ nCalls' = i
        /\ call' = [call EXCEPT ![i] = "awaiting"]
        /\ prior' = [prior EXCEPT ![i] =
                       IF mediaRecorderRef # NULL
                          /\ rec[mediaRecorderRef] = "recording"
                       THEN mediaRecorderRef ELSE NULL]
        /\ lastOp' = Op("startListening", i, FALSE, s)
  /\ UNCHANGED << mounted, trig, heard, heardAt >>
  /\ Env

\* getUserMedia rejects (permission denied, no device).
GetUserMediaReject(i) ==
  /\ call[i] = "awaiting"
  /\ LET s == startListeningCatch(Cur)
     IN /\ Commit(s)
        /\ lastOp' = Op("getUserMediaReject", i, FALSE, s)
  /\ call' = [call EXCEPT ![i] = "failed"]
  /\ UNCHANGED << mounted, nCalls, trig, prior, heard, heardAt >>
  /\ Env

\* getUserMedia resolves and the rest of startListening runs.
GetUserMediaResolve(i, outcome, average) ==
  /\ call[i] = "awaiting"
  /\ LET s == startListeningResume(Cur, i, outcome, average, now)
         loud == "measure" \in s.fx /\ average > VAD_THRESHOLD
     IN /\ Commit(s)
        /\ lastOp' = Op("getUserMedia", i, FALSE, s)
        /\ heard' = IF outcome = "ctxThrow" THEN heard ELSE loud
        /\ heardAt' = IF outcome = "ctxThrow" THEN heardAt
                      ELSE IF loud THEN now ELSE 0
  /\ call' = [call EXCEPT ![i] = IF outcome = "ok" THEN "started"
                                 ELSE "failed"]
  /\ UNCHANGED << mounted, nCalls, trig, prior >>
  /\ Env

\* The caller calls stopListening.
StopListening ==
  /\ mounted
  /\ LET s == stopListening(Cur)
     IN /\ Commit(s)
        /\ lastOp' = Op("stopListening", mediaRecorderRef, FALSE, s)
  /\ trig' = IF mediaRecorderRef = NULL THEN trig
             ELSE [trig EXCEPT ![mediaRecorderRef] = @ \cup
                     {IF rec[mediaRecorderRef] = "recording"
                      THEN "manualLive" ELSE "manualIdle"}]
  /\ UNCHANGED << call, mounted, nCalls, prior, heard, heardAt >>
  /\ Env

\* The animation frame requested by the loop of call i fires.
AnimationFrame(i, average) ==
  /\ frame[i]
  /\ LET s == checkVolume([Cur EXCEPT !.frame[i] = FALSE], i, average, now)
         ran == "measure" \in s.fx
         loud == ran /\ average > VAD_THRESHOLD
     IN /\ Commit(s)
        /\ lastOp' = Op("checkVolume", i, FALSE, s)
        /\ heard' = (heard \/ loud)
        /\ heardAt' = IF loud THEN now ELSE heardAt
        /\ trig' = IF "autoStop" \in s.fx /\ mediaRecorderRef # NULL
                   THEN [trig EXCEPT ![mediaRecorderRef] = @ \cup
                           {IF rec[mediaRecorderRef] = "recording"
                            THEN "autoLive" ELSE "autoIdle"}]
                   ELSE trig
  /\ UNCHANGED << call, mounted, nCalls, prior >>
  /\ Env

\* The stop handler runs before the last chunk is delivered.
RecorderStopTask_stopFirst(i, size) ==
  /\ rec[i] = "stopping"
  /\ LET s == ondataavailable(onstop(Cur, i), i, size)
     IN /\ Commit(s)
        /\ lastOp' = OpIn("onstop", i, FALSE,
                          [NoInput EXCEPT !.size = size], s)
  /\ UNCHANGED << call, mounted, nCalls, trig, prior, heard, heardAt >>
  /\ Env

\* The task queued by MediaRecorder.stop() runs for the recorder of call i:
\* dataavailable with the recorded data, then stop.
RecorderStopTask(i, size) ==
  /\ rec[i] = "stopping"
  /\ LET s == onstop(ondataavailable(Cur, i, size), i)
     IN /\ Commit(s)
        /\ lastOp' = OpIn("onstop", i, FALSE,
                          [NoInput EXCEPT !.size = size], s)
  /\ UNCHANGED << call, mounted, nCalls, trig, prior, heard, heardAt >>
  /\ Env

\* The fetch of processAudio completes.
FetchDone(u, outcome, text) ==
  /\ u \in uploads
  /\ LET s == processAudioDone([Cur EXCEPT !.uploads = @ \ {u}],
                               outcome, text)
     IN /\ Commit(s)
        /\ lastOp' = OpIn("processAudioDone", u.sess, nCalls > u.epoch,
                          [outcome |-> outcome,
                           text |-> IF outcome = "ok" THEN text ELSE <<>>,
                           size |-> u.size], s)
  /\ UNCHANGED << call, mounted, nCalls, trig, prior, heard, heardAt >>
  /\ Env

ResetTranscript ==
  /\ mounted
  /\ transcript # <<>> \/ error # "null"
  /\ LET s == resetTranscript(Cur)
     IN /\ Commit(s)
        /\ lastOp' = Op("resetTranscript", NULL, FALSE, s)
  /\ UNCHANGED << call, mounted, nCalls, trig, prior, heard, heardAt >>
  /\ Env

\* The component unmounts: the effect's cleanup runs cleanupAudio.
Unmount ==
  /\ mounted
  /\ LET s == cleanupAudio(Cur)
     IN /\ Commit(s)
        /\ lastOp' = Op("unmount", NULL, FALSE, s)
  /\ mounted' = FALSE
  /\ UNCHANGED << call, nCalls, trig, prior, heard, heardAt >>
  /\ Env

\* Wall-clock time passes between two tasks.
AdvanceClock(d) ==
  /\ now + d <= StartTime + MaxElapsed
  /\ now' = now + d
  /\ lastOp' = [op |-> "clock", sess |-> NULL, stale |-> FALSE,
                inp |-> NoInput, fx |-> {}]
  /\ UNCHANGED << isListening, transcript, error, mediaRecorderRef,
                  audioChunksRef, audioContextRef, analyserRef, sourceRef,
                  animationFrameRef, lastSpeechTimeRef, isSpeechDetectedRef,
                  stream, ctx, srcNode, anNode, rec, frame, call, uploads,
                  apiKey, mounted, nCalls, recStops, finals, uploadCnt,
                  trig, prior, heard, heardAt,
                  conversationHistory, chat, nChat, plain, thrown,
                  sse, vision, tts, edge, poller >>

Next ==
  \/ StartListening
  \/ \E i \in Calls : GetUserMediaReject(i)
  \/ \E i \in Calls, o \in SetupOutcomes, e \in Energies :
       GetUserMediaResolve(i, o, e)
  \/ StopListening
  \/ \E i \in Calls, e \in Energies : AnimationFrame(i, e)
  \/ \E i \in Calls, z \in ChunkSizes : RecorderStopTask(i, z)
  \/ \E u \in uploads, o \in FetchOutcomes, t \in Texts : FetchDone(u, o, t)
  \/ ResetTranscript
  \/ Unmount
  \/ \E d \in ClockSteps : AdvanceClock(d)

Spec == Init /\ [][Next]_vars

\* The hook when startListening is called once only, with the tasks the
\* platform runs by itself treated fairly: a getUserMedia promise settles,
\* a requested animation frame fires, a stopped recorder's events are
\* delivered, a fetch completes, time passes. Calls made by the user of
\* the hook (stopListening, resetTranscript, unmount) are not forced.
NextNoRestart == Next /\ (nCalls' # nCalls => nCalls = 0)

Settle(i) ==
  \/ GetUserMediaReject(i)
  \/ \E o \in SetupOutcomes, e \in Energies : GetUserMediaResolve(i, o, e)

Fairness ==
  /\ \A i \in Calls :
       /\ WF_vars(Settle(i))
       /\ WF_vars(\E e \in Energies : AnimationFrame(i, e))
       /\ WF_vars(\E z \in ChunkSizes : RecorderStopTask(i, z))
  /\ WF_vars(\E u \in uploads, o \in FetchOutcomes, t \in Texts :
               FetchDone(u, o, t))
  /\ WF_vars(\E d \in ClockSteps : AdvanceClock(d))

SpecNoRestart == Init /\ [][NextNoRestart]_vars /\ Fairness

TypeOK ==
  /\ isListening \in BOOLEAN
  /\ mediaRecorderRef \in 0..MaxCalls
  /\ animationFrameRef \in 0..MaxCalls
  /\ now \in StartTime..(StartTime + MaxElapsed)

\* ------------------------------------------- the conversation service
\* sendMessageToGemini, streamMessageToGemini and resetConversation of
\* src/unnamed/part_000. Each call c has its own message; an entry of
\* conversationHistory is [role, call, content]. A call runs up to its
\* fetch in one step; the settled fetch and, for a stream, every read and
\* every resumption by the consumer are further steps, so calls overlap.
ChatCalls == 1..MaxChat

Replies == { <<>>, <<"r">> }
Fragments == { <<"x">> }
SendOutcomes == {"ok", "badJson", "http429", "http500", "network"}
StreamOutcomes == {"ok", "noBody", "http429", "http500", "network"}

\* response.ok and response.status of a settled fetch
responseOk(outcome) == outcome \notin {"http429", "http500"}
responseStatus(outcome) ==
  CASE outcome = "http429" -> 429
    [] outcome = "http500" -> 500
    [] OTHER -> 200
ReadOutcomes == {"chunk", "done", "error"}

SystemEntry == [role |-> "system", call |-> 0, content |-> <<"SYSTEM_PROMPT">>]
UserEntry(c) == [role |-> "user", call |-> c, content |-> <<"u">>]
AssistantEntry(c, text) == [role |-> "assistant", call |-> c, content |-> text]
Fallback == <<"fallback">>

NoError == [kind |-> "none", statusCode |-> 0, isRetryable |-> FALSE]
GeminiConfigError ==
  [kind |-> "ConfigError", statusCode |-> 0, isRetryable |-> FALSE]
\* new GeminiApiError(message, statusCode?, isRetryable = false)
GeminiApiError(statusCode, isRetryable) ==
  [kind |-> "GroqApiError", statusCode |-> statusCode,
   isRetryable |-> isRetryable]
OtherError == [kind |-> "Error", statusCode |-> 0, isRetryable |-> FALSE]

InFlightPcs == {"fetch", "read", "yield"}
InFlight == {c \in ChatCalls : chat[c].pc \in InFlightPcs}

\* Array.prototype.pop
pop(h) == IF h = <<>> THEN h ELSE SubSeq(h, 1, Len(h) - 1)

\* Array.prototype.slice(-n)
sliceLast(h, n) == IF Len(h) <= n THEN h ELSE SubSeq(h, Len(h) - n + 1, Len(h))

\* The state a call's code works on: the history, the call's own record k
\* (its locals, gone when the call ends), the error it throws to its
\* caller and the effects of the step.
ChatCur(c) ==
  [h |-> conversationHistory, k |-> chat[c], err |-> NoError, fx |-> {}]

ChatCommit(c, s) ==
  /\ conversationHistory' = s.h
  /\ chat' = [chat EXCEPT ![c] = s.k]
  /\ thrown' = s.err

\* the end of a call: its locals are gone
chatEnd(s, pc) ==
  [s EXCEPT !.k.pc = pc, !.k.fullResponse = <<>>, !.k.chunks = 0]

\* a catch block that sends the request again after a retryable error
chatCatch_retries(s, e) ==
  IF e.isRetryable
  THEN [s EXCEPT !.k.pc = "fetch", !.k.requests = Cap2(@ + 1),
                 !.fx = @ \cup {"fetch"}]
  ELSE [chatEnd(s, "thrown") EXCEPT !.h = pop(@), !.err = e,
                                    !.fx = @ \cup {"pop"}]

\* the catch block of both functions: pop and rethrow
chatCatch(s, e) ==
  [chatEnd(s, "thrown") EXCEPT !.h = pop(@), !.err = e,
                               !.fx = @ \cup {"pop"}]

\* sendMessageToGemini up to its fetch
sendMessageToGemini(s, c) ==
  IF ~apiKey
  THEN [s EXCEPT !.k.kind = "send", !.k.pc = "thrown",
                 !.err = GeminiConfigError]
  ELSE LET h1 == IF Len(s.h) = 0 THEN <<SystemEntry>> ELSE s.h
       IN [s EXCEPT !.h = Append(h1, UserEntry(c)),
                    !.k.kind = "send",
                    !.k.pc = "fetch",
                    !.k.requests = Cap2(@ + 1),
                    !.fx = @ \cup {"fetch"}]

\* sendMessageToGeminiDone keeping the last 7 entries, the system entry
\* not among them
sendMessageToGeminiDone_dropsSystem(s, c, outcome, reply) ==
  CASE outcome = "network" -> chatCatch(s, OtherError)
    [] ~responseOk(outcome) ->
         chatCatch(s, IF responseStatus(outcome) = 429
                      THEN GeminiApiError(429, TRUE)
                      ELSE GeminiApiError(responseStatus(outcome), FALSE))
    [] outcome = "badJson" -> chatCatch(s, OtherError)
    [] OTHER ->
         LET text == IF reply = <<>> THEN Fallback ELSE reply
             h1 == Append(s.h, AssistantEntry(c, text))
             h2 == IF Len(h1) > HistoryLimit
                   THEN sliceLast(h1, HistoryLimit)
                   ELSE h1
         IN [chatEnd(s, "done") EXCEPT !.h = h2]

\* sendMessageToGemini after its fetch settled. The body of an error
\* response is read and not used (line 68); a failure of that read is not
\* among the outcomes.
sendMessageToGeminiDone(s, c, outcome, reply) ==
  CASE outcome = "network" -> chatCatch(s, OtherError)
    [] ~responseOk(outcome) ->
         chatCatch(s, IF responseStatus(outcome) = 429
                      THEN GeminiApiError(429, TRUE)
                      ELSE GeminiApiError(responseStatus(outcome), FALSE))
    [] outcome = "badJson" -> chatCatch(s, OtherError)
    [] OTHER ->
         LET text == IF reply = <<>> THEN Fallback ELSE reply
             h1 == Append(s.h, AssistantEntry(c, text))
             h2 == IF Len(h1) > HistoryLimit
                   THEN <<h1[1]>> \o sliceLast(h1, KeepLast)
                   ELSE h1
         IN [chatEnd(s, "done") EXCEPT !.h = h2]

\* streamMessageToGemini from the consumer's first next() up to its fetch
streamMessageToGemini(s, c) ==
  IF ~apiKey
  THEN [s EXCEPT !.k.kind = "stream", !.k.pc = "thrown",
                 !.err = GeminiConfigError]
  ELSE LET h1 == IF Len(s.h) = 0 THEN <<SystemEntry>> ELSE s.h
       IN [s EXCEPT !.h = Append(h1, UserEntry(c)),
                    !.k.kind = "stream",
                    !.k.pc = "fetch",
                    !.k.requests = Cap2(@ + 1),
                    !.fx = @ \cup {"fetch"}]

\* streamMessageToGemini after its fetch settled
streamMessageToGeminiResponse(s, c, outcome) ==
  CASE outcome = "network" -> chatCatch(s, OtherError)
    [] ~responseOk(outcome) -> chatCatch(s, GeminiApiError(0, FALSE))
    [] outcome = "noBody" -> chatCatch(s, OtherError)
    [] OTHER -> [s EXCEPT !.k.pc = "read"]

\* streamMessageToGemini after reader.read() settled: a chunk whose data
\* line carries content (appended and yielded), the end of the body, or a
\* failed read
streamMessageToGeminiRead(s, c, outcome, content) ==
  CASE outcome = "error" -> chatCatch(s, OtherError)
    [] outcome = "done" ->
         [chatEnd(s, "done") EXCEPT
            !.h = Append(@, AssistantEntry(c, s.k.fullResponse))]
    [] OTHER ->
         [s EXCEPT !.k.fullResponse = @ \o content,
                   !.k.chunks = @ + 1,
                   !.k.pc = "yield",
                   !.fx = @ \cup {"yield"}]

resetConversation(s) == [s EXCEPT !.h = <<>>]

HookUnchanged ==
  UNCHANGED << isListening, transcript, error, mediaRecorderRef,
               audioChunksRef, audioContextRef, analyserRef, sourceRef,
               animationFrameRef, lastSpeechTimeRef, isSpeechDetectedRef,
               stream, ctx, srcNode, anNode, rec, frame, call, uploads,
               now, apiKey, mounted, nCalls, recStops, finals, uploadCnt,
               trig, prior, heard, heardAt >>

ChatInput(outcome) == [NoInput EXCEPT !.outcome = outcome]

\* The caller calls sendMessageToGemini with a new message.
SendCall ==
  /\ nChat < MaxChat
  /\ Cardinality(InFlight) < MaxInFlight
  /\ LET c == nChat + 1
         s == sendMessageToGemini(ChatCur(c), c)
     IN /\ ChatCommit(c, s)
        /\ nChat' = c
        /\ lastOp' = Op("sendMessageToGemini", c, FALSE, s)
  /\ plain' = (plain /\ InFlight = {})
  /\ HookUnchanged
  /\ UNCHANGED << sse, vision, tts, edge, poller >>

\* The fetch of a sendMessageToGemini call settles.
SendDone(c, outcome, reply) ==
  /\ chat[c].kind = "send"
  /\ chat[c].pc = "fetch"
  /\ LET s == sendMessageToGeminiDone(ChatCur(c), c, outcome, reply)
     IN /\ ChatCommit(c, s)
        /\ lastOp' = OpIn(IF s.k.pc = "done" THEN "sendMessageOk"
                          ELSE "sendMessageFail",
                          c, FALSE, ChatInput(outcome), s)
  /\ UNCHANGED << nChat, plain >>
  /\ HookUnchanged
  /\ UNCHANGED << sse, vision, tts, edge, poller >>

\* The consumer starts iterating a new streamMessageToGemini generator.
StreamCall ==
  /\ nChat < MaxChat
  /\ Cardinality(InFlight) < MaxInFlight
  /\ LET c == nChat + 1
         s == streamMessageToGemini(ChatCur(c), c)
     IN /\ ChatCommit(c, s)
        /\ nChat' = c
        /\ lastOp' = Op("streamMessageToGemini", c, FALSE, s)
  /\ plain' = FALSE
  /\ HookUnchanged
  /\ UNCHANGED << sse, vision, tts, edge, poller >>

\* The fetch of a streamMessageToGemini call settles.
StreamResponse(c, outcome) ==
  /\ chat[c].kind = "stream"
  /\ chat[c].pc = "fetch"
  /\ LET s == streamMessageToGeminiResponse(ChatCur(c), c, outcome)
     IN /\ ChatCommit(c, s)
        /\ lastOp' = OpIn(IF s.k.pc = "thrown" THEN "streamFail"
                          ELSE "streamResponse",
                          c, FALSE, ChatInput(outcome), s)
  /\ UNCHANGED << nChat, plain >>
  /\ HookUnchanged
  /\ UNCHANGED << sse, vision, tts, edge, poller >>

\* reader.read() of a stream settles.
StreamRead(c, outcome, content) ==
  /\ chat[c].pc = "read"
  /\ outcome = "chunk" => chat[c].chunks < MaxChunks
  /\ LET s == streamMessageToGeminiRead(ChatCur(c), c, outcome, content)
     IN /\ ChatCommit(c, s)
        /\ lastOp' = OpIn(CASE s.k.pc = "thrown" -> "streamFail"
                            [] s.k.pc = "done" -> "streamOk"
                            [] OTHER -> "streamYield",
                          c, FALSE, ChatInput(outcome), s)
  /\ UNCHANGED << nChat, plain >>
  /\ HookUnchanged
  /\ UNCHANGED << sse, vision, tts, edge, poller >>

\* The consumer asks for the next fragment: the generator resumes.
ConsumerNext(c) ==
  /\ chat[c].pc = "yield"
  /\ chat' = [chat EXCEPT ![c].pc = "read"]
  /\ thrown' = NoError
  /\ lastOp' = Op("next", c, FALSE, [fx |-> {}])
  /\ UNCHANGED << conversationHistory, nChat, plain >>
  /\ HookUnchanged
  /\ UNCHANGED << sse, vision, tts, edge, poller >>

\* The consumer leaves its loop: return() ends the generator at the yield;
\* neither the rest of the try block nor the catch block runs.
ConsumerReturn(c) ==
  /\ chat[c].pc = "yield"
  /\ chat' = [chat EXCEPT ![c] = chatEnd([k |-> @], "returned").k]
  /\ thrown' = NoError
  /\ lastOp' = Op("return", c, FALSE, [fx |-> {}])
  /\ UNCHANGED << conversationHistory, nChat, plain >>
  /\ HookUnchanged
  /\ UNCHANGED << sse, vision, tts, edge, poller >>

ResetConversation ==
  /\ conversationHistory # <<>>
  /\ conversationHistory' = resetConversation([h |-> conversationHistory]).h
  /\ plain' = (plain /\ InFlight = {})
  /\ thrown' = NoError
  /\ lastOp' = Op("resetConversation", NULL, FALSE, [fx |-> {}])
  /\ UNCHANGED << chat, nChat >>
  /\ HookUnchanged
  /\ UNCHANGED << sse, vision, tts, edge, poller >>

NextChat ==
  \/ SendCall
  \/ \E c \in ChatCalls, o \in SendOutcomes, r \in Replies :
       SendDone(c, o, r)
  \/ StreamCall
  \/ \E c \in ChatCalls, o \in StreamOutcomes :
       StreamResponse(c, o)
  \/ \E c \in ChatCalls, o \in ReadOutcomes, f \in Fragments :
       StreamRead(c, o, f)
  \/ \E c \in ChatCalls : ConsumerNext(c)
  \/ \E c \in ChatCalls : ConsumerReturn(c)
  \/ ResetConversation

SpecChat == Init /\ [][NextChat]_vars

\* --------------------------------------- one streamed reply, line by line
\* The read loop of streamMessageToGemini (lines 126-151) on the text of
\* the response. The text is a sequence of units: the prefix 'data: ', the
\* sentinel '[DONE]', a line feed, and the characters of a JSON payload,
\* where '{' c '}' stands for an object whose choices[0].delta.content is
\* c and '{' '}' for one without content. reader.read() cuts the body
\* anywhere between two units.
ContentChars == {"a", "b"}

DataLine(c) == <<"data: ", "{", c, "}">>
NoContentLine == <<"data: ", "{", "}">>
BadLine == <<"data: ", "{", "a">>
DoneLine == <<"data: ", "[DONE]">>

BodyLines ==
  {DataLine(c) : c \in ContentChars} \cup {NoContentLine, BadLine, DoneLine, <<>>}

RECURSIVE Join(_)
\* the lines of a response, each ended by a line feed
Join(ls) ==
  IF ls = <<>> THEN <<>> ELSE Head(ls) \o <<"\n">> \o Join(Tail(ls))

Responses ==
  {Join(ls) : ls \in UNION {[1..n -> BodyLines] : n \in 1..MaxLines}}

RECURSIVE split(_)
\* chunk.split('\n')
split(t) ==
  IF t = <<>> THEN << <<>> >>
  ELSE LET r == split(Tail(t))
       IN IF Head(t) = "\n" THEN << <<>> >> \o r
          ELSE << <<Head(t)>> \o Head(r) >> \o Tail(r)

\* JSON.parse(payload) and json.choices[0]?.delta?.content
jsonParse(payload) ==
  CASE Len(payload) = 3 /\ payload[1] = "{" /\ payload[3] = "}"
         /\ payload[2] \in ContentChars ->
           [ok |-> TRUE, content |-> <<payload[2]>>]
    [] payload = <<"{", "}">> -> [ok |-> TRUE, content |-> <<>>]
    [] OTHER -> [ok |-> FALSE, content |-> <<>>]

\* line.startsWith('data: ') && line !== 'data: [DONE]'
isDataLine(line) == line # <<>> /\ Head(line) = "data: " /\ line # DoneLine

\* the body of the for loop up to the yield: the content the line gives,
\* empty when the line is skipped or its parse error is ignored
lineContent(line) ==
  IF isDataLine(line)
  THEN LET json == jsonParse(Tail(line))
       IN IF json.ok THEN json.content ELSE <<>>
  ELSE <<>>

sseCur == [h |-> conversationHistory, k |-> sse, err |-> NoError, fx |-> {}]

sseCommit(s) ==
  /\ conversationHistory' = s.h
  /\ sse' = s.k
  /\ thrown' = s.err

\* the catch block of streamMessageToGemini
sseCatch(s, e) ==
  [s EXCEPT !.h = pop(@), !.k.pc = "thrown", !.err = e,
            !.fx = @ \cup {"pop"}]

RECURSIVE forLines(_)
\* for (const line of lines): runs to the next yield or to the end of the
\* chunk's lines. seen and doneAt record the lines the loop has taken and
\* the number of fragments yielded when it first took the sentinel line.
forLines(s) ==
  IF s.k.lines = <<>> THEN [s EXCEPT !.k.pc = "read"]
  ELSE LET line == Head(s.k.lines)
           content == lineContent(line)
           s1 == [s EXCEPT !.k.lines = Tail(@),
                           !.k.seen = Append(@, line),
                           !.k.doneAt = IF line = DoneLine /\ @ = -1
                                        THEN Len(s.k.yielded) ELSE @]
       IN IF content # <<>>
          THEN [s1 EXCEPT !.k.fullResponse = @ \o content,
                          !.k.yielded = Append(@, content),
                          !.k.pc = "yield",
                          !.fx = @ \cup {"yield"}]
          ELSE forLines(s1)

\* a read loop in which a payload that is not valid JSON ends the stream
\* with an error
streamMessageToGeminiChunk_parseErrorAborts(s, n) ==
  LET lines == split(SubSeq(s.k.body, 1, n))
  IN IF \E i \in 1..Len(lines) :
          isDataLine(lines[i]) /\ ~jsonParse(Tail(lines[i])).ok
     THEN sseCatch(s, OtherError)
     ELSE forLines([s EXCEPT !.k.body = SubSeq(@, n + 1, Len(@)),
                             !.k.reads = @ + 1,
                             !.k.lines = lines])

\* reader.read() gave the next n units of the body: decode, split, loop
streamMessageToGeminiChunk(s, n) ==
  forLines([s EXCEPT !.k.body = SubSeq(@, n + 1, Len(@)),
                     !.k.reads = @ + 1,
                     !.k.lines = split(SubSeq(s.k.body, 1, n))])

\* reader.read() gave done: the reply is stored
streamMessageToGeminiEnd(s) ==
  [s EXCEPT !.h = Append(@, AssistantEntry(1, s.k.fullResponse)),
            !.k.pc = "done"]

SseUnchanged ==
  /\ HookUnchanged
  /\ UNCHANGED << chat, nChat, plain, vision, tts, edge, poller >>

\* The consumer starts iterating the generator.
SseCall ==
  /\ sse.pc = "idle"
  /\ LET b == streamMessageToGemini(ChatCur(1), 1)
     IN /\ conversationHistory' = b.h
        /\ thrown' = b.err
        /\ sse' = [sse EXCEPT !.pc = b.k.pc]
        /\ lastOp' = Op("streamMessageToGemini", 1, FALSE, b)
  /\ SseUnchanged

\* The fetch settles with a success status and a body.
SseResponse(response) ==
  /\ sse.pc = "fetch"
  /\ sse' = [sse EXCEPT !.pc = "read", !.response = response,
                        !.body = response]
  /\ thrown' = NoError
  /\ lastOp' = Op("streamResponse", 1, FALSE, [fx |-> {}])
  /\ UNCHANGED conversationHistory
  /\ SseUnchanged

\* reader.read() settles with n more units of the body; the last of
\* MaxReads reads takes all that is left.
SseRead(n) ==
  /\ sse.pc = "read"
  /\ n \in 1..Len(sse.body)
  /\ sse.reads + 1 < MaxReads \/ n = Len(sse.body)
  /\ LET s == streamMessageToGeminiChunk(sseCur, n)
     IN /\ sseCommit(s)
        /\ lastOp' = Op("streamChunk", 1, FALSE, s)
  /\ SseUnchanged

\* reader.read() settles with done at the end of the body.
SseReadEnd ==
  /\ sse.pc = "read"
  /\ sse.body = <<>>
  /\ LET s == streamMessageToGeminiEnd(sseCur)
     IN /\ sseCommit(s)
        /\ lastOp' = Op("streamOk", 1, FALSE, s)
  /\ SseUnchanged

\* reader.read() rejects.
SseReadError ==
  /\ sse.pc = "read"
  /\ LET s == sseCatch(sseCur, OtherError)
     IN /\ sseCommit(s)
        /\ lastOp' = Op("streamFail", 1, FALSE, s)
  /\ SseUnchanged

\* The consumer asks for the next fragment: the loop goes on.
SseNext ==
  /\ sse.pc = "yield"
  /\ LET s == forLines(sseCur)
     IN /\ sseCommit(s)
        /\ lastOp' = Op("next", 1, FALSE, s)
  /\ SseUnchanged

\* The consumer leaves its loop: return() ends the generator at the yield.
SseReturn ==
  /\ sse.pc = "yield"
  /\ sse' = [sse EXCEPT !.pc = "returned"]
  /\ thrown' = NoError
  /\ lastOp' = Op("return", 1, FALSE, [fx |-> {}])
  /\ UNCHANGED conversationHistory
  /\ SseUnchanged

NextStream ==
  \/ SseCall
  \/ \E r \in Responses : SseResponse(r)
  \/ \E n \in 1..(5 * MaxLines) : SseRead(n)
  \/ SseReadEnd
  \/ SseReadError
  \/ SseNext
  \/ SseReturn

SpecStream == Init /\ [][NextStream]_vars

\* ------------------------------------------------------ the image service
\* analyzeImageWithGemini of src/services/geminiVisionService.ts. A call
\* runs up to its fetch in one step and from the settled fetch to its end
\* in another; calls may overlap. statusCode 0 stands for undefined.
VisionCalls == 1..MaxVision

Images == { <<"data:", "img">>, <<"img">> }
VisionResults == { <<>>, <<"r">> }
VisionHttpOutcomes == {"http400", "http404", "http429", "http500"}
VisionOutcomes == {"ok", "badJson", "network"} \cup VisionHttpOutcomes

visionStatus(outcome) ==
  CASE outcome = "http400" -> 400
    [] outcome = "http404" -> 404
    [] outcome = "http429" -> 429
    [] outcome = "http500" -> 500
    [] OTHER -> 200

NoVisionError ==
  [kind |-> "none", message |-> "", statusCode |-> 0, isRetryable |-> FALSE]
\* new GeminiVisionError(message, statusCode?, isRetryable = false)
GeminiVisionError(message, statusCode, isRetryable) ==
  [kind |-> "GroqVisionError", message |-> message,
   statusCode |-> statusCode, isRetryable |-> isRetryable]
PlainError(message) ==
  [kind |-> "Error", message |-> message, statusCode |-> 0,
   isRetryable |-> FALSE]

\* imageBase64.startsWith('data:') ? imageBase64 : `data:image/jpeg;base64,...`
imageUrlOf(imageBase64) ==
  IF imageBase64 # <<>> /\ Head(imageBase64) = "data:" THEN imageBase64
  ELSE <<"data:image/jpeg;base64,">> \o imageBase64

\* analyzeImageWithGemini up to its fetch
analyzeImageWithGemini(k, imageBase64) ==
  IF ~apiKey
  THEN [k EXCEPT !.pc = "thrown",
                 !.err = PlainError("VITE_GROQ_API_KEY is missing")]
  ELSE [k EXCEPT !.pc = "fetch", !.imageUrl = imageUrlOf(imageBase64)]

\* the try block after the fetch: what it throws, if anything
visionTry(outcome, result) ==
  CASE outcome = "network" -> PlainError("fetch")
    [] outcome \in {"http400", "http404"} ->
         GeminiVisionError("Model Error", 0, FALSE)
    [] outcome \in VisionHttpOutcomes ->
         GeminiVisionError("Groq Vision Error: status", 0, FALSE)
    [] outcome = "badJson" -> PlainError("json")
    [] result = <<>> -> PlainError("No content returned from Vision API")
    [] OTHER -> NoVisionError

\* the catch block: whatever was thrown, a new error is thrown instead
visionCatch(e) == GeminiVisionError("Failed to analyze image", 0, FALSE)

\* analyzeImageWithGemini after its fetch settled
analyzeImageWithGeminiDone(k, outcome, result) ==
  LET e == visionTry(outcome, result)
  IN IF e = NoVisionError
     THEN [k EXCEPT !.pc = "done", !.result = result]
     ELSE [k EXCEPT !.pc = "thrown", !.err = visionCatch(e)]

VisionUnchanged ==
  /\ HookUnchanged
  /\ UNCHANGED << conversationHistory, chat, nChat, plain, thrown, sse,
                  tts, edge, poller >>

\* The caller calls analyzeImageWithGemini with an image.
VisionCall(c, imageBase64) ==
  /\ vision[c].pc = "idle"
  /\ \A b \in VisionCalls : b < c => vision[b].pc # "idle"
  /\ vision' = [vision EXCEPT
                  ![c] = analyzeImageWithGemini(@, imageBase64)]
  /\ lastOp' = Op("analyzeImageWithGemini", c, FALSE, [fx |-> {}])
  /\ VisionUnchanged

\* The fetch of a call settles.
VisionDone(c, outcome, result) ==
  /\ vision[c].pc = "fetch"
  /\ LET k == analyzeImageWithGeminiDone(vision[c], outcome, result)
     IN /\ vision' = [vision EXCEPT ![c] = k]
        /\ lastOp' = OpIn(IF k.pc = "done" THEN "analyzeImageOk"
                          ELSE "analyzeImageFail",
                          c, FALSE, ChatInput(outcome), [fx |-> {}])
  /\ VisionUnchanged

NextVision ==
  \/ \E c \in VisionCalls, img \in Images : VisionCall(c, img)
  \/ \E c \in VisionCalls, o \in VisionOutcomes, r \in VisionResults :
       VisionDone(c, o, r)

SpecVision == Init /\ [][NextVision]_vars

\* -------------------------------------------------- the browser speech hook
\* src/src/hooks/useTextToSpeech.ts. A text is a sequence of characters. The
\* engine (window.speechSynthesis) keeps the utterances handed to it in
\* `synth`, speaks the first of them and fires start, then end or error, on
\* it. cancel() empties `synth`; the end or error events of the utterances
\* it removed are delivered afterwards (`late`). An utterance carries the
\* speak() call and the place of its sentence in that call's text; the
\* handlers of the source carry neither.
Punct == {".", "!", "?"}
TtsChars == {"a", " ", ".", "!"}
TtsTexts == { <<" ">>, <<"a", ".">>, <<"a", ".", " ", "a", "!">> }
SplitTexts == UNION {[1..n -> TtsChars] : n \in 0..MaxTextLen}
TtsEvents == {"end", "error"}

RECURSIVE NonPunctRun(_)
\* the length of the longest prefix of t matched by [^.!?]*
NonPunctRun(t) ==
  IF t = <<>> \/ Head(t) \in Punct THEN 0 ELSE 1 + NonPunctRun(Tail(t))

RECURSIVE PunctRun(_)
\* the length of the longest prefix of t matched by [.!?]*
PunctRun(t) ==
  IF t = <<>> \/ Head(t) \notin Punct THEN 0 ELSE 1 + PunctRun(Tail(t))

RECURSIVE match(_)
\* text.match(/[^.!?]+[.!?]+/g): the successive matches, <<>> for null
match(t) ==
  LET n == NonPunctRun(t)
      m == PunctRun(SubSeq(t, n + 1, Len(t)))
  IN IF t = <<>> THEN <<>>
     ELSE IF n = 0 THEN match(Tail(t))
     ELSE IF m = 0 THEN <<>>
     ELSE << SubSeq(t, 1, n + m) >> \o match(SubSeq(t, n + m + 1, Len(t)))

\* (text.match(...) || [text]).map(s => s.trim()).filter(s => s.length > 0)
sentences(text) ==
  LET found == match(text)
      parts == IF found = <<>> THEN << text >> ELSE found
      trimmed == [i \in 1..Len(parts) |-> Trim(parts[i])]
  IN SelectSeq(trimmed, LAMBDA s : Len(s) > 0)

ttsCur == [k |-> tts, fx |-> {}]

\* new SpeechSynthesisUtterance(text) for the sentence at the head of the
\* queue
Utterance(k) ==
  [call |-> k.nSpeak,
   idx |-> Len(sentences(k.text)) - Len(k.speechQueue) + 1,
   text |-> Head(k.speechQueue),
   started |-> FALSE]

processQueue(s) ==
  IF s.k.isProcessingQueue \/ s.k.speechQueue = <<>> THEN s
  ELSE IF Head(s.k.speechQueue) = <<>>
  THEN [s EXCEPT !.k.speechQueue = Tail(@)]
  ELSE [s EXCEPT !.k.isProcessingQueue = TRUE,
                 !.k.speechQueue = Tail(@),
                 !.k.synth = Append(@, Utterance(s.k)),
                 !.fx = @ \cup {"speak"}]

\* utterance.onstart
onstart(s) ==
  [s EXCEPT !.k.isSpeaking = TRUE, !.fx = @ \cup {"onStart"}]

\* utterance.onend
onend(s) ==
  LET a == [s EXCEPT !.k.isProcessingQueue = FALSE]
  IN IF a.k.speechQueue # <<>> THEN processQueue(a)
     ELSE [a EXCEPT !.k.isSpeaking = FALSE,
                    !.fx = @ \cup {"setIsSpeakingFalse", "onEnd"}]

\* utterance.onerror
onerror(s) ==
  LET a == [s EXCEPT !.k.isProcessingQueue = FALSE,
                     !.k.isSpeaking = FALSE,
                     !.fx = @ \cup {"setIsSpeakingFalse"}]
  IN IF a.k.speechQueue # <<>> THEN processQueue(a)
     ELSE [a EXCEPT !.fx = @ \cup {"onEnd"}]

\* window.speechSynthesis.cancel()
cancel(s) ==
  [s EXCEPT !.k.late = @ \cup {s.k.synth[i] : i \in 1..Len(s.k.synth)},
            !.k.synth = <<>>]

speak(s, text) ==
  IF ~s.k.isSupported THEN s
  ELSE processQueue([cancel(s) EXCEPT !.k.isProcessingQueue = FALSE,
                                      !.k.speechQueue = sentences(text),
                                      !.k.nSpeak = @ + 1,
                                      !.k.text = text,
                                      !.k.stopped = FALSE])

stop_keepsQueue(s) ==
  [cancel(s) EXCEPT !.k.isProcessingQueue = FALSE,
                    !.k.isSpeaking = FALSE,
                    !.k.stopped = TRUE,
                    !.fx = @ \cup {"setIsSpeakingFalse"}]

stop(s) ==
  [cancel(s) EXCEPT !.k.speechQueue = <<>>,
                    !.k.isProcessingQueue = FALSE,
                    !.k.isSpeaking = FALSE,
                    !.k.stopped = TRUE,
                    !.fx = @ \cup {"setIsSpeakingFalse"}]

TtsUnchanged ==
  /\ HookUnchanged
  /\ UNCHANGED << conversationHistory, chat, nChat, plain, thrown, sse,
                  vision, edge, poller >>

TtsInput(kind, u) ==
  [outcome |-> kind, text |-> u.text, size |-> u.idx]

\* The hook is mounted: the effect records whether the browser has
\* speechSynthesis.
TtsMount(supported) ==
  /\ ~tts.mounted
  /\ tts' = [tts EXCEPT !.mounted = TRUE, !.isSupported = supported]
  /\ lastOp' = Op("ttsMount", NULL, FALSE, [fx |-> {}])
  /\ TtsUnchanged

\* The caller calls speak(text).
TtsSpeak(text) ==
  /\ tts.mounted
  /\ tts.nSpeak < MaxSpeak
  /\ LET s == speak(ttsCur, text)
     IN /\ tts' = s.k
        /\ lastOp' = OpIn("speak", s.k.nSpeak, FALSE,
                          [NoInput EXCEPT !.text = text], s)
  /\ TtsUnchanged

\* The caller calls stop(). Without speechSynthesis the call throws at its
\* first statement.
TtsStop ==
  /\ tts.mounted
  /\ tts.isSupported
  /\ LET s == stop(ttsCur)
     IN /\ tts' = s.k
        /\ lastOp' = Op("stop", tts.nSpeak, FALSE, s)
  /\ TtsUnchanged

\* The engine begins the first utterance it holds.
TtsStart ==
  /\ tts.synth # <<>>
  /\ ~tts.synth[1].started
  /\ LET u == tts.synth[1]
         s == onstart([ttsCur EXCEPT !.k.synth[1].started = TRUE])
     IN /\ tts' = s.k
        /\ lastOp' = OpIn("onstart", u.call, FALSE, TtsInput("start", u), s)
  /\ TtsUnchanged

\* The utterance the engine is speaking ends, or the engine fails on its
\* first utterance.
TtsEnd(kind) ==
  /\ tts.synth # <<>>
  /\ kind = "end" => tts.synth[1].started
  /\ LET u == tts.synth[1]
         a == [ttsCur EXCEPT !.k.synth = Tail(@)]
         s == IF kind = "end" THEN onend(a) ELSE onerror(a)
     IN /\ tts' = s.k
        /\ lastOp' = OpIn(IF kind = "end" THEN "onend" ELSE "onerror",
                          u.call, FALSE, TtsInput(kind, u), s)
  /\ TtsUnchanged

\* The end or error event of an utterance removed by cancel() is delivered.
TtsLate(u, kind) ==
  /\ u \in tts.late
  /\ kind = "end" => u.started
  /\ LET a == [ttsCur EXCEPT !.k.late = @ \ {u}]
         s == IF kind = "end" THEN onend(a) ELSE onerror(a)
     IN /\ tts' = s.k
        /\ lastOp' = OpIn(IF kind = "end" THEN "onend" ELSE "onerror",
                          u.call, TRUE, TtsInput(kind, u), s)
  /\ TtsUnchanged

NextTTS ==
  \/ \E b \in BOOLEAN : TtsMount(b)
  \/ \E t \in TtsTexts : TtsSpeak(t)
  \/ TtsStop
  \/ TtsStart
  \/ \E k \in TtsEvents : TtsEnd(k)
  \/ \E u \in tts.late, k \in TtsEvents : TtsLate(u, k)

SpecTTS == Init /\ [][NextTTS]_vars

\* speak() once, on every text of up to MaxTextLen characters
NextSplit ==
  \/ \E b \in BOOLEAN : TtsMount(b)
  \/ \E t \in SplitTexts : tts.nSpeak = 0 /\ TtsSpeak(t)
  \/ TtsStart
  \/ \E k \in TtsEvents : TtsEnd(k)

SpecSplit == Init /\ [][NextSplit]_vars

\* --------------------------------------------------- the server speech hook
\* useEdgeTTS in src/public/raspberry-pi/start_aera.sh. Every speak() call
\* has its own AbortController signal and, once the audio arrived, its own
\* Audio element. A call waits in turn for fetch ("fetch"), for
\* response.text() of an error reply ("text") or response.blob() ("blob"),
\* and for audio.play() ("play"). abort() makes the pending fetch or body
\* read of its call reject with an AbortError; pause() on an element whose
\* play() promise is pending makes that promise reject.
EdgeCalls == 1..MaxEdge
EdgeTexts == { <<>>, <<"a">> }
EdgeFetchOutcomes == {"ok", "http", "network"}
EdgeBlobOutcomes == {"ok", "empty", "network"}
EdgePlayOutcomes == {"ok", "blocked"}
EdgeAudioEvents == {"ended", "error"}

edgeCur == [k |-> edge, fx |-> {}]

\* audio.pause()
pause(audio) == IF audio \in {"loading", "playing"} THEN "paused" ELSE audio

edgeStop(s) ==
  LET a == s.k.audioRef
      c == s.k.abortControllerRef
      s1 == IF a # NULL
            THEN [s EXCEPT !.k.c[a].audio = pause(@), !.k.audioRef = NULL]
            ELSE s
      s2 == IF c # NULL
            THEN [s1 EXCEPT !.k.c[c].signal = "aborted",
                            !.k.abortControllerRef = NULL]
            ELSE s1
  IN [s2 EXCEPT !.k.isSpeaking = FALSE,
                !.fx = @ \cup {"setIsSpeakingFalse"}]

\* speak, up to the await of fetch
edgeSpeak(s, i, text) ==
  IF text = <<>> THEN [s EXCEPT !.k.c[i].pc = "done"]
  ELSE [edgeStop(s) EXCEPT !.k.isSpeaking = TRUE,
                           !.fx = @ \cup {"onStart"},
                           !.k.abortControllerRef = i,
                           !.k.c[i].signal = "live",
                           !.k.c[i].pc = "fetch",
                           !.k.latest = i,
                           !.k.stopped = FALSE]

\* the catch block of speak
edgeSpeakCatch(s, i, name) ==
  IF name = "AbortError" THEN [s EXCEPT !.k.c[i].pc = "done"]
  ELSE [s EXCEPT !.k.c[i].pc = "done",
                 !.k.isSpeaking = FALSE,
                 !.fx = @ \cup {"setIsSpeakingFalse", "onError"}]

\* speak, from the settling of fetch to the next await
edgeSpeakFetched(s, i, outcome) ==
  IF s.k.c[i].signal = "aborted" THEN edgeSpeakCatch(s, i, "AbortError")
  ELSE CASE outcome = "ok" -> [s EXCEPT !.k.c[i].pc = "blob"]
         [] outcome = "http" -> [s EXCEPT !.k.c[i].pc = "text"]
         [] OTHER -> edgeSpeakCatch(s, i, "TypeError")

\* speak, from the settling of response.text() of an error reply
edgeSpeakErrorText(s, i) ==
  IF s.k.c[i].signal = "aborted" THEN edgeSpeakCatch(s, i, "AbortError")
  ELSE edgeSpeakCatch(s, i, "Error")

\* speak, from the settling of response.blob() to the await of audio.play()
edgeSpeakBlob(s, i, outcome) ==
  IF s.k.c[i].signal = "aborted" THEN edgeSpeakCatch(s, i, "AbortError")
  ELSE IF outcome = "ok"
  THEN [s EXCEPT !.k.c[i].audio = "loading",
                 !.k.audioRef = i,
                 !.k.c[i].pc = "play"]
  ELSE edgeSpeakCatch(s, i, "Error")

\* the handler given to audio.play().catch
edgePlayCatch(s, i) ==
  [s EXCEPT !.k.c[i].pc = "done",
            !.k.c[i].audio = pause(@),
            !.k.isSpeaking = FALSE,
            !.fx = @ \cup {"setIsSpeakingFalse", "onError"}]

\* speak, from the settling of audio.play() to its end
edgeSpeakPlayed(s, i, outcome) ==
  IF s.k.c[i].audio = "paused" \/ outcome = "blocked"
  THEN edgePlayCatch(s, i)
  ELSE [s EXCEPT !.k.c[i].pc = "done", !.k.c[i].audio = "playing"]

\* audio.onended and audio.onerror
edgeAudioEvent(s, i, ev) ==
  [s EXCEPT !.k.c[i].audio = IF ev = "ended" THEN "ended" ELSE "failed",
            !.k.isSpeaking = FALSE,
            !.fx = @ \cup {"setIsSpeakingFalse",
                           IF ev = "ended" THEN "onEnd" ELSE "onError"}]

EdgeUnchanged ==
  /\ HookUnchanged
  /\ UNCHANGED << conversationHistory, chat, nChat, plain, thrown, sse,
                  vision, tts, poller >>

\* a handler of call i runs after a later speak() or a stop()
EdgeStale(i) == i # edge.latest \/ edge.stopped

\* The caller calls speak(text).
EdgeSpeak(i, text) ==
  /\ edge.c[i].pc = "idle"
  /\ \A j \in EdgeCalls : j < i => edge.c[j].pc # "idle"
  /\ LET s == edgeSpeak(edgeCur, i, text)
     IN /\ edge' = s.k
        /\ lastOp' = OpIn("edgeSpeak", i, FALSE,
                          [NoInput EXCEPT !.text = text], s)
  /\ EdgeUnchanged

\* The caller calls stop(), or the component unmounts.
EdgeStop ==
  /\ LET s == edgeStop(edgeCur)
     IN /\ edge' = [s.k EXCEPT !.stopped = TRUE]
        /\ lastOp' = Op("edgeStop", edge.latest, FALSE, s)
  /\ EdgeUnchanged

\* The fetch of call i settles.
EdgeFetchDone(i, outcome) ==
  /\ edge.c[i].pc = "fetch"
  /\ LET s == edgeSpeakFetched(edgeCur, i, outcome)
     IN /\ edge' = s.k
        /\ lastOp' = OpIn("edgeFetched", i, EdgeStale(i),
                          ChatInput(outcome), s)
  /\ EdgeUnchanged

\* response.text() of the error reply of call i settles.
EdgeTextDone(i) ==
  /\ edge.c[i].pc = "text"
  /\ LET s == edgeSpeakErrorText(edgeCur, i)
     IN /\ edge' = s.k
        /\ lastOp' = Op("edgeErrorText", i, EdgeStale(i), s)
  /\ EdgeUnchanged

\* response.blob() of call i settles.
EdgeBlobDone(i, outcome) ==
  /\ edge.c[i].pc = "blob"
  /\ LET s == edgeSpeakBlob(edgeCur, i, outcome)
     IN /\ edge' = s.k
        /\ lastOp' = OpIn("edgeBlob", i, EdgeStale(i), ChatInput(outcome), s)
  /\ EdgeUnchanged

\* audio.play() of call i settles.
EdgePlayDone(i, outcome) ==
  /\ edge.c[i].pc = "play"
  /\ LET s == edgeSpeakPlayed(edgeCur, i, outcome)
     IN /\ edge' = s.k
        /\ lastOp' = OpIn("edgePlayed", i, EdgeStale(i),
                          ChatInput(outcome), s)
  /\ EdgeUnchanged

\* The playing element of call i reaches its end or fails.
EdgeAudioEvent(i, ev) ==
  /\ edge.c[i].audio = "playing"
  /\ LET s == edgeAudioEvent(edgeCur, i, ev)
     IN /\ edge' = s.k
        /\ lastOp' = OpIn("edgeAudio", i, EdgeStale(i), ChatInput(ev), s)
  /\ EdgeUnchanged

NextEdge ==
  \/ \E i \in EdgeCalls, t \in EdgeTexts : EdgeSpeak(i, t)
  \/ EdgeStop
  \/ \E i \in EdgeCalls, o \in EdgeFetchOutcomes : EdgeFetchDone(i, o)
  \/ \E i \in EdgeCalls : EdgeTextDone(i)
  \/ \E i \in EdgeCalls, o \in EdgeBlobOutcomes : EdgeBlobDone(i, o)
  \/ \E i \in EdgeCalls, o \in EdgePlayOutcomes : EdgePlayDone(i, o)
  \/ \E i \in EdgeCalls, ev \in EdgeAudioEvents : EdgeAudioEvent(i, ev)

SpecEdge == Init /\ [][NextEdge]_vars

\* ---------------------------------------------------------- the sensor poller
\* fetchSensorData and createSensorPoller in src/unnamed/part_001. One poller
\* is created; every run of poll is an instance p with its own place: "fetch"
\* (the request is out), "json" (response.json() is being read), "resolved"
\* (fetchSensorData returned without a request and poll has yet to resume),
\* "timer" (its setTimeout is pending), "done". A sensor value of the JSON
\* reply is a number or NotANumber; null is NULL. lastUpdated is left out.
Polls == 1..MaxPolls
PollerModes == {"simulation", "noIp", "hardware"}
NotANumber == -1
PollerFetchOutcomes == {"ok", "http", "network"}

DEFAULT_SENSOR_DATA ==
  [temperature |-> NULL, humidity |-> NULL, tempAlert |-> FALSE,
   light |-> NULL, lightIsDark |-> FALSE, motion |-> FALSE,
   lastMotion |-> NULL, isConnected |-> FALSE]

\* a body that is not JSON: response.json() rejects
BadJson == [bad |-> TRUE]

\* no reading yet
NoData == [none |-> TRUE]

\* what response.json() may give
SensorJson ==
  { [temperature |-> 21, humidity |-> 40, temp_alert |-> TRUE, light |-> 50,
     light_is_dark |-> TRUE, motion |-> TRUE, last_motion |-> 5],
    [temperature |-> NotANumber, humidity |-> NotANumber,
     temp_alert |-> FALSE, light |-> 50, light_is_dark |-> FALSE,
     motion |-> FALSE, last_motion |-> NotANumber] }

generateSimulatedSensorData ==
  [temperature |-> 21, humidity |-> 40, tempAlert |-> FALSE, light |-> 50,
   lightIsDark |-> FALSE, motion |-> TRUE, lastMotion |-> 5,
   isConnected |-> TRUE]

\* typeof v === 'number' ? v : null
NumberOrNull(v) == IF v # NotANumber THEN v ELSE NULL

\* the object fetchSensorData returns for a reply
sensorReading(data) ==
  [temperature |-> NumberOrNull(data.temperature),
   humidity |-> NumberOrNull(data.humidity),
   tempAlert |-> data.temp_alert,
   light |-> NumberOrNull(data.light),
   lightIsDark |-> data.light_is_dark,
   motion |-> data.motion,
   lastMotion |-> NumberOrNull(data.last_motion),
   isConnected |-> TRUE]

Resolved(data) == [rejected |-> FALSE, data |-> data]
Rejected == [rejected |-> TRUE, data |-> DEFAULT_SENSOR_DATA]

fetchSensorDataCatch_rethrows(e) == Rejected

\* the catch block of fetchSensorData
fetchSensorDataCatch(e) == Resolved(DEFAULT_SENSOR_DATA)

pollerCur == [k |-> poller, fx |-> {}]

\* poll, after the await of fetchSensorData; onData and onError are taken to
\* return normally
pollResume(s, p, res) ==
  LET a == IF ~s.k.isPolling THEN s
           ELSE IF res.rejected THEN [s EXCEPT !.fx = @ \cup {"onError"}]
           ELSE [s EXCEPT !.fx = @ \cup {"onData"}, !.k.lastData = res.data]
  IN IF a.k.isPolling
     THEN [a EXCEPT !.k.pc[p] = "timer", !.k.timeoutId = p,
                    !.fx = @ \cup {"setTimeout"}]
     ELSE [a EXCEPT !.k.pc[p] = "done"]

\* fetchSensorData, up to its first await or its return
fetchSensorData(s, p) ==
  CASE s.k.mode = "simulation" ->
         [s EXCEPT !.k.pc[p] = "resolved",
                   !.k.result = Resolved(generateSimulatedSensorData)]
    [] s.k.mode = "noIp" ->
         [s EXCEPT !.k.pc[p] = "resolved",
                   !.k.result = Resolved(DEFAULT_SENSOR_DATA)]
    [] OTHER ->
         [s EXCEPT !.k.pc[p] = "fetch", !.k.abortTimer[p] = TRUE,
                   !.fx = @ \cup {"fetch"}]

\* poll, up to the await of fetchSensorData
poll(s, p) ==
  IF ~s.k.isPolling THEN s ELSE fetchSensorData(s, p)

\* fetchSensorData after the await of fetch, and poll after it when
\* fetchSensorData returns
fetchSensorDataFetched(s, p, outcome) ==
  CASE outcome = "ok" ->
         [s EXCEPT !.k.abortTimer[p] = FALSE, !.k.pc[p] = "json"]
    [] outcome = "http" ->
         pollResume([s EXCEPT !.k.abortTimer[p] = FALSE], p,
                    fetchSensorDataCatch("Error"))
    [] outcome = "abort" ->
         pollResume(s, p, fetchSensorDataCatch("AbortError"))
    [] OTHER -> pollResume(s, p, fetchSensorDataCatch("TypeError"))

\* fetchSensorData after the await of response.json(), and poll after it
fetchSensorDataParsed(s, p, data) ==
  IF data = BadJson THEN pollResume(s, p, fetchSensorDataCatch("SyntaxError"))
  ELSE pollResume(s, p, Resolved(sensorReading(data)))

cleanup_keepsPolling(s) ==
  LET t == s.k.timeoutId
  IN IF t # NULL /\ s.k.pc[t] = "timer"
     THEN [s EXCEPT !.k.pc[t] = "done", !.k.cleaned = TRUE]
     ELSE [s EXCEPT !.k.cleaned = TRUE]

\* the function createSensorPoller returns
cleanup(s) ==
  LET a == [s EXCEPT !.k.isPolling = FALSE, !.k.cleaned = TRUE]
      t == s.k.timeoutId
  IN IF t # NULL /\ a.k.pc[t] = "timer"
     THEN [a EXCEPT !.k.pc[t] = "done"]
     ELSE a

createSensorPoller(s, mode) ==
  poll([s EXCEPT !.k.mode = mode, !.k.isPolling = TRUE], 1)

PollerUnchanged ==
  /\ HookUnchanged
  /\ UNCHANGED << conversationHistory, chat, nChat, plain, thrown, sse,
                  vision, tts, edge >>

\* The caller creates the poller; the first poll runs up to its await.
PollerCreate(mode) ==
  /\ poller.mode = "none"
  /\ LET s == createSensorPoller(pollerCur, mode)
     IN /\ poller' = s.k
        /\ lastOp' = OpIn("createSensorPoller", 1, FALSE, ChatInput(mode), s)
  /\ PollerUnchanged

\* poll p resumes with what fetchSensorData returned without a request.
PollerResume(p) ==
  /\ poller.pc[p] = "resolved"
  /\ LET s == pollResume(pollerCur, p, poller.result)
     IN /\ poller' = s.k
        /\ lastOp' = OpIn("pollResume", p, poller.cleaned,
                          ChatInput(poller.mode), s)
  /\ PollerUnchanged

\* The request of poll p settles.
PollerFetchDone(p, outcome) ==
  /\ poller.pc[p] = "fetch"
  /\ LET s == fetchSensorDataFetched(pollerCur, p, outcome)
     IN /\ poller' = s.k
        /\ lastOp' = OpIn("pollFetched", p, poller.cleaned,
                          ChatInput(outcome), s)
  /\ PollerUnchanged

\* The 5-second timer of the request of poll p fires: controller.abort().
\* A request still out is rejected with an AbortError.
PollerAbortTimer(p) ==
  /\ poller.abortTimer[p]
  /\ LET a == [pollerCur EXCEPT !.k.abortTimer[p] = FALSE]
         s == IF poller.pc[p] = "fetch"
              THEN fetchSensorDataFetched(a, p, "abort") ELSE a
     IN /\ poller' = s.k
        /\ lastOp' = OpIn("pollAbortTimer", p, poller.cleaned,
                          ChatInput(IF poller.pc[p] = "fetch" THEN "abort"
                                    ELSE "none"), s)
  /\ PollerUnchanged

\* response.json() of poll p settles.
PollerJsonDone(p, data) ==
  /\ poller.pc[p] = "json"
  /\ LET s == fetchSensorDataParsed(pollerCur, p, data)
     IN /\ poller' = s.k
        /\ lastOp' = OpIn("pollParsed", p, poller.cleaned,
                          ChatInput(IF data = BadJson THEN "badJson"
                                    ELSE "ok"), s)
  /\ PollerUnchanged

\* The timer set by poll p fires: the next poll runs up to its await.
PollerTimer(p) ==
  /\ poller.pc[p] = "timer"
  /\ p < MaxPolls
  /\ LET s == poll([pollerCur EXCEPT !.k.pc[p] = "done"], p + 1)
     IN /\ poller' = s.k
        /\ lastOp' = Op("poll", p + 1, poller.cleaned, s)
  /\ PollerUnchanged

\* The caller calls the cleanup function.
PollerCleanup ==
  /\ poller.mode # "none"
  /\ LET s == cleanup(pollerCur)
     IN /\ poller' = s.k
        /\ lastOp' = Op("cleanup", NULL, FALSE, s)
  /\ PollerUnchanged

NextPoller ==
  \/ \E m \in PollerModes : PollerCreate(m)
  \/ \E p \in Polls : PollerResume(p)
  \/ \E p \in Polls, o \in PollerFetchOutcomes : PollerFetchDone(p, o)
  \/ \E p \in Polls : PollerAbortTimer(p)
  \/ \E p \in Polls, d \in SensorJson \cup {BadJson} : PollerJsonDone(p, d)
  \/ \E p \in Polls : PollerTimer(p)
  \/ PollerCleanup

SpecPoller == Init /\ [][NextPoller]_vars

\* ------------------------------------------------------------------ claims
Live(f, v) == {i \in Calls : f[i] = v}

C2_AtMostOneSession ==
  /\ Cardinality(Live(stream, "live")) <= 1
  /\ Cardinality(Live(rec, "recording")) <= 1
  /\ Cardinality(Live(ctx, "running")) <= 1
  /\ Cardinality(Live(anNode, "connected")) <= 1
  /\ Cardinality(Live(frame, TRUE)) <= 1

\* C3: whatever stop triggers fire for a session, its recorder is stopped
\* at most once, its clip is assembled at most once and at most one upload
\* is made for it.
C3_StopOnce ==
  \A i \in Calls : recStops[i] <= 1 /\ finals[i] <= 1 /\ uploadCnt[i] <= 1

C3_Witness ==
  \E i \in Calls :
    /\ trig[i] \cap {"manualLive", "manualIdle"} # {}
    /\ trig[i] \cap {"autoLive", "autoIdle"} # {}
    /\ recStops[i] = 1
    /\ finals[i] = 1
    /\ uploadCnt[i] = 1

\* C4: once stopListening was called on a Listening session and the
\* recorder's stop event has been handled, the tracks of that session's
\* stream are stopped and no animation frame of its VAD loop is pending.
C4_StoppedSessionReleased ==
  \A i \in Calls :
    "manualLive" \in trig[i] /\ rec[i] = "stopped"
      => stream[i] = "stopped" /\ ~frame[i]

\* C5: the result of an upload that was in flight when a later
\* startListening began sets neither transcript nor error.
C5_LateResultDiscarded ==
  lastOp.op = "processAudioDone" /\ lastOp.stale
    => lastOp.fx \cap {"setTranscript", "setError"} = {}

\* C6: while no tick since the session was set up has measured energy above
\* 20, no tick takes the stop path and no tick stops the recorder, whatever
\* the time.
C6_NoAutoStopWithoutSpeech ==
  lastOp.op \in {"checkVolume", "getUserMedia"} /\ ~heard
    => lastOp.fx \cap {"autoStop", "recStop"} = {}

C6_Witness ==
  /\ lastOp.op = "checkVolume"
  /\ "resched" \in lastOp.fx
  /\ ~heard
  /\ now - lastSpeechTimeRef > 1500
  /\ now >= StartTime + 2000
  /\ mediaRecorderRef # NULL
  /\ rec[mediaRecorderRef] = "recording"

\* C7: a tick takes the stop path exactly when some tick of the session
\* measured energy above 20 and this tick's time exceeds the time of the
\* last such tick by more than 1500 ms; it then schedules no further tick,
\* and every other tick schedules the next one.
C7_AutoStopAfterSilence ==
  "measure" \in lastOp.fx =>
    /\ "autoStop" \in lastOp.fx <=> (heard /\ now - heardAt > 1500)
    /\ "autoStop" \in lastOp.fx
         => "resched" \notin lastOp.fx /\ ~frame[lastOp.sess]
    /\ "autoStop" \notin lastOp.fx
         => "resched" \in lastOp.fx /\ frame[lastOp.sess]

C7_Witness ==
  /\ lastOp.op = "checkVolume"
  /\ lastOp.fx = {"measure", "autoStop", "recStop"}
  /\ now - heardAt = 2000

C9_PriorReleasedBeforeAcquire ==
  lastOp.op = "getUserMedia" /\ prior[lastOp.sess] # NULL =>
    LET p == prior[lastOp.sess]
    IN /\ rec[p] \in {"stopping", "stopped"}
       /\ ~frame[p]
       /\ anNode[p] = "disconnected"
       /\ srcNode[p] = "disconnected"
       /\ ctx[p] = "closed"
       /\ stream[p] = "stopped"

\* C10: after a failed startListening no microphone track, AudioContext or
\* recorder of that attempt is live.
C10_NoLeakOnFailure ==
  \A j \in Calls :
    call[j] = "failed"
      => stream[j] # "live" /\ ctx[j] # "running" /\ rec[j] # "recording"

\* C11: when getUserMedia is rejected, no stream, AudioContext or
\* MediaRecorder of that call exists, no VAD frame of that call is ever
\* scheduled, isListening is false and error is set.
C11_RejectedStartHasNoEffect ==
  /\ \A i \in Calls :
       call[i] = "failed" /\ stream[i] = "none"
         => rec[i] = "none" /\ ctx[i] = "none" /\ anNode[i] = "none"
            /\ ~frame[i] /\ recStops[i] = 0 /\ finals[i] = 0
  /\ lastOp.op = "getUserMediaReject"
       => ~isListening /\ error # "null" /\ call[lastOp.sess] = "failed"

C11_Witness ==
  /\ lastOp.op = "getUserMediaReject"
  /\ error = "Microphone access denied"
  /\ rec[lastOp.sess] = "none"

\* C12: the clip of a recorder is assembled only in the task of its stop
\* event, after the data of that recorder has been delivered: a recorder
\* whose stop() was called but whose stop event is pending has no clip and
\* no upload, the step that calls stop() assembles and uploads nothing, and
\* an uploaded clip holds the chunk delivered in that task.
C12_ClipAssembledInStopHandler ==
  /\ \A i \in Calls :
       /\ rec[i] \in {"none", "new", "recording", "stopping"}
            => finals[i] = 0 /\ uploadCnt[i] = 0
       /\ finals[i] > 0 => rec[i] = "stopped"
  /\ "recStop" \in lastOp.fx => lastOp.fx \cap {"fetch", "push"} = {}
  /\ lastOp.op = "onstop" =>
       /\ lastOp.inp.size > 0 =>
            /\ audioChunksRef # <<>>
            /\ audioChunksRef[Len(audioChunksRef)] =
                 [rec |-> lastOp.sess, size |-> lastOp.inp.size]
       /\ "fetch" \in lastOp.fx =>
            [sess |-> lastOp.sess, size |-> BlobSize(audioChunksRef),
             epoch |-> nCalls] \in uploads

C12_Witness ==
  /\ lastOp.op = "onstop"
  /\ "fetch" \in lastOp.fx
  /\ lastOp.inp.size = 5000
  /\ finals[lastOp.sess] = 1

\* The text between the leading and the trailing whitespace of t.
IsCoreOf(r, t) ==
  \E i \in 1..Len(t), j \in 1..Len(t) :
    /\ i <= j
    /\ r = [k \in 1..(j - i + 1) |-> t[i + k - 1]]
    /\ t[i] \notin {" ", "\n"}
    /\ t[j] \notin {" ", "\n"}
    /\ \A k \in 1..Len(t) : (k < i \/ k > j) => t[k] \in {" ", "\n"}

AllWhitespace(t) == \A k \in 1..Len(t) : t[k] \in {" ", "\n"}

\* C13: when the upload of a clip returns a success response whose text is
\* not empty after trimming, transcript is that text without its leading
\* and trailing whitespace.
C13_TranscriptIsTrimmedText ==
  lastOp.op = "processAudioDone" /\ lastOp.inp.outcome = "ok"
  /\ ~AllWhitespace(lastOp.inp.text)
    => /\ IsCoreOf(transcript, lastOp.inp.text)
       /\ "setTranscript" \in lastOp.fx

C13_Witness ==
  /\ lastOp.op = "processAudioDone"
  /\ lastOp.inp.outcome = "ok"
  /\ lastOp.inp.text = <<" ", "a", " ", "b", "\n">>
  /\ lastOp.inp.size = 5000
  /\ transcript = <<"a", " ", "b">>

\* C14: when the upload succeeds but the text is missing, empty or all
\* whitespace, transcript and error are left as they were.
C14_EmptyResultIsNotAnError ==
  [][ lastOp'.op = "processAudioDone"
      /\ \/ lastOp'.inp.outcome = "noText"
         \/ lastOp'.inp.outcome = "ok" /\ AllWhitespace(lastOp'.inp.text)
        => /\ transcript' = transcript
           /\ error' = error
           /\ lastOp'.fx = {} ]_vars

C14_Witness ==
  /\ lastOp.op = "processAudioDone"
  /\ lastOp.inp.outcome = "ok"
  /\ lastOp.inp.text = <<" ">>
  /\ error = "null"
  /\ transcript = <<>>

\* C15: without an API key no upload request is ever issued, and an
\* accepted clip sets the error 'Missing API Key'.
C15_NoKeyNoRequest ==
  ~apiKey =>
    /\ uploads = {}
    /\ \A i \in Calls : uploadCnt[i] = 0
    /\ lastOp.op = "onstop" /\ isSpeechDetectedRef
       /\ BlobSize(audioChunksRef) > 1000
         => error = "Missing API Key" /\ "fetch" \notin lastOp.fx

C15_Witness ==
  /\ ~apiKey
  /\ lastOp.op = "onstop"
  /\ isSpeechDetectedRef
  /\ BlobSize(audioChunksRef) = 5000
  /\ error = "Missing API Key"

\* C16: a finalized clip is uploaded at most once; when its upload fails
\* with a non-success status or a network error, error is set, transcript
\* is unchanged, no request is issued and no recorder, stream or
\* startListening call is created or changed.
C16_FailureSetsErrorNoRetry ==
  /\ [](\A i \in Calls : uploadCnt[i] <= finals[i] /\ uploadCnt[i] <= 1)
  /\ [][ lastOp'.op = "processAudioDone"
         /\ lastOp'.inp.outcome \in {"http", "network"}
           => /\ error' = "Transcription failed"
              /\ transcript' = transcript
              /\ uploads' \subseteq uploads
              /\ uploadCnt' = uploadCnt
              /\ rec' = rec /\ stream' = stream /\ ctx' = ctx
              /\ frame' = frame /\ call' = call /\ nCalls' = nCalls
              /\ isListening' = isListening ]_vars

C16_Witness ==
  /\ lastOp.op = "processAudioDone"
  /\ lastOp.inp.outcome = "http"
  /\ error = "Transcription failed"
  /\ transcript # <<>>

\* C26: when a session stopped by stopListening or by auto-stop is back
\* in Idle (its recorder's stop event has been handled), its analyser
\* graph is disconnected and its AudioContext is closed, the microphone
\* is released and no frame of its VAD loop is pending. stopListening and
\* the stop handler leave the source, the analyser and the AudioContext
\* alone; only cleanupAudio, at the next startListening or at unmount,
\* disconnects and closes them.
C26_StopReleasesAudioGraph ==
  (lastOp.op = "onstop"
     /\ trig[lastOp.sess] \cap {"manualLive", "autoLive"} # {})
    => /\ ~isListening
       /\ stream[lastOp.sess] = "stopped"
       /\ ~frame[lastOp.sess]
       /\ srcNode[lastOp.sess] = "disconnected"
       /\ anNode[lastOp.sess] = "disconnected"
       /\ ctx[lastOp.sess] = "closed"

\* no getUserMedia request is awaited and no recorder's stop event is due
NoStartOrStopPending ==
  /\ \A i \in Calls : call[i] # "awaiting"
  /\ \A i \in Calls : rec[i] # "stopping"

\* C27: in every state in which no start or stop event is pending,
\* isListening is true if and only if the current session's MediaRecorder
\* is recording with its stream live and its analyser wired. When
\* startListening is called on an active session, the old recorder's stop
\* handler may run after the new session began recording and sets
\* isListening to false under it.
C27_IsListeningMatchesRecorder ==
  NoStartOrStopPending
    => (isListening <=>
          /\ mediaRecorderRef # NULL
          /\ rec[mediaRecorderRef] = "recording"
          /\ stream[mediaRecorderRef] = "live"
          /\ analyserRef = mediaRecorderRef
          /\ anNode[mediaRecorderRef] = "connected")

\* C28: a VAD tick that does not trigger auto-stop changes only the speech
\* flag, the time of the last speech and the scheduled animation frame: it
\* leaves the recorder, the chunk buffer, transcript, error, isListening
\* and every other object unchanged and issues no network request.
C28_TickTouchesOnlyVadState ==
  [][ (lastOp'.op = "checkVolume" /\ "autoStop" \notin lastOp'.fx)
        => /\ UNCHANGED << isListening, transcript, error, mediaRecorderRef,
                           audioChunksRef, audioContextRef, analyserRef,
                           sourceRef, stream, ctx, srcNode, anNode, rec,
                           uploads, recStops, finals, uploadCnt >>
           /\ lastOp'.fx \cap {"fetch", "recStop", "setError",
                               "setTranscript"} = {} ]_vars

C28_Witness ==
  /\ lastOp.op = "checkVolume"
  /\ lastOp.fx = {"measure", "resched"}
  /\ isSpeechDetectedRef
  /\ lastSpeechTimeRef = now
  /\ now > StartTime
  /\ isListening
  /\ rec[lastOp.sess] = "recording"
  /\ frame[lastOp.sess]

NoFx(s) == [s EXCEPT !.fx = {}]

\* C29: release is idempotent. In every state, the never-started hook
\* included, a second cleanupAudio right after a first one, and a second
\* stopListening right after a first one, stops no recorder (so
\* MediaRecorder.stop() is not called on an inactive recorder and
\* close() not on a closed context) and leaves every ref and every object
\* as the first call left it.
C29_ReleaseIdempotent ==
  /\ LET a == NoFx(cleanupAudio(Cur))
         b == cleanupAudio(a)
     IN b.fx = {} /\ NoFx(b) = a
  /\ LET a == NoFx(stopListening(Cur))
         b == stopListening(a)
     IN b.fx = {} /\ NoFx(b) = a
  /\ LET a == NoFx(stopListening(Cur))
         b == cleanupAudio(a)
         c == cleanupAudio(NoFx(b))
     IN "recStop" \notin b.fx /\ c.fx = {} /\ NoFx(c) = NoFx(b)
  /\ nCalls = 0 => NoFx(cleanupAudio(Cur)) = Cur /\ NoFx(stopListening(Cur)) = Cur

\* a second stopListening right after the first, the stop event still due
C29_Witness ==
  /\ lastOp.op = "stopListening"
  /\ lastOp.fx = {}
  /\ mediaRecorderRef # NULL
  /\ rec[mediaRecorderRef] = "stopping"
  /\ recStops[mediaRecorderRef] = 1
  /\ "manualIdle" \in trig[mediaRecorderRef]
  /\ animationFrameRef = NULL

\* C31: the clip finalized for a session holds, in order, exactly the
\* chunks its own recorder delivered: none of another session, none lost.
\* All recorders push into the one audioChunksRef array, which a new
\* session replaces by an empty one (line 90); the chunk of a recorder
\* that was still stopping then lands in the new session's array and is
\* part of the new session's clip.
C31_ClipHoldsOwnChunksOnly ==
  lastOp.op = "onstop"
    => audioChunksRef =
         (IF lastOp.inp.size > 0
          THEN << [rec |-> lastOp.sess, size |-> lastOp.inp.size] >>
          ELSE <<>>)

HookAtRest ==
  /\ ~isListening
  /\ \A i \in Calls :
       rec[i] # "recording" /\ ~frame[i] /\ stream[i] # "live"

\* C32: if stopListening is called while startListening is awaiting the
\* microphone and no further startListening follows, the hook eventually
\* stays with no recorder recording, no VAD loop scheduled, no live
\* microphone track and isListening false. stopListening finds no
\* recorder to stop and leaves no mark; when the promise resolves the
\* call goes on, starts the recorder and the loop, and the session lasts
\* until something else stops it.
C32_StopWhileStartingEndsAtRest ==
  []((lastOp.op = "stopListening" /\ \E i \in Calls : call[i] = "awaiting")
       => <>[]HookAtRest)

\* ---------------------------------------- claims, conversation service
ChatFailOps == {"sendMessageFail", "streamFail"}

Holds(h, e) == \E i \in 1..Len(h) : h[i] = e

\* C17: when a reply request fails and no other request is in flight, the
\* user message pushed by the failing call is no longer in
\* conversationHistory. The catch block pops the last entry, whatever it
\* is: after an overlapping call has appended its entries the pop removes
\* one of those and the failing call's own user entry stays.
C17_FailureRemovesOwnUserEntry ==
  (lastOp.op \in ChatFailOps /\ InFlight = {})
    => ~Holds(conversationHistory, UserEntry(lastOp.sess))

\* C18: while sendMessageToGemini calls run one at a time (no stream, no
\* overlap, no reset during a call), a non-empty conversationHistory has
\* the system prompt at index 0; and when a successful call leaves more
\* than 7 entries, the history becomes the system entry followed by the 6
\* most recent entries in their order.
C18_SystemFirstAndRollingWindow ==
  /\ [](plain /\ conversationHistory # <<>>
          => conversationHistory[1] = SystemEntry)
  /\ [][ (plain' /\ lastOp'.op = "sendMessageOk"
            /\ Len(conversationHistory) + 1 > HistoryLimit)
         => LET h == conversationHistory'
                all == Append(conversationHistory, h[Len(h)])
            IN /\ Len(h) = 1 + KeepLast
               /\ h[Len(h)].role = "assistant"
               /\ h[Len(h)].call = lastOp'.sess
               /\ h = <<SystemEntry>>
                        \o SubSeq(all, Len(all) - KeepLast + 1, Len(all)) ]_vars

C18_Witness ==
  /\ plain
  /\ lastOp.op = "sendMessageOk"
  /\ nChat = MaxChat
  /\ Len(conversationHistory) = 1 + KeepLast
  /\ conversationHistory[1] = SystemEntry
  /\ conversationHistory[2] = UserEntry(2)

\* C19: a 429 response, received through sendMessageToGemini or
\* streamMessageToGemini, gives the caller an error with status code 429
\* and the retryable flag set, and the call's user entry is no longer in
\* conversationHistory. streamMessageToGemini throws GeminiApiError with
\* the message alone (line 123): no status code, retryable flag false.
C19_RateLimitIsRetryable429 ==
  (lastOp.op \in ChatFailOps /\ lastOp.inp.outcome = "http429")
    => /\ thrown = GeminiApiError(429, TRUE)
       /\ ~Holds(conversationHistory, UserEntry(lastOp.sess))

C22_EveryUserTurnAnswered ==
  InFlight = {}
    => \A i \in 1..Len(conversationHistory) :
         conversationHistory[i].role = "user"
           => /\ i < Len(conversationHistory)
              /\ conversationHistory[i + 1].role = "assistant"

\* C23: after any reply operation completes, by sendMessageToGemini or by
\* streamMessageToGemini, conversationHistory has at most 7 entries.
\* Only sendMessageToGemini cuts the history back (lines 82-87);
\* streamMessageToGemini pushes its two entries and never does.
C23_HistoryAtMostSeven ==
  lastOp.op \in {"sendMessageOk", "streamOk"} \cup ChatFailOps
    => Len(conversationHistory) <= HistoryLimit

\* ----------------------------------------------- claims, streamed reply
RECURSIVE Flat(_)
Flat(fs) == IF fs = <<>> THEN <<>> ELSE Head(fs) \o Flat(Tail(fs))

RECURSIVE FragmentsOf(_)
\* the contents of the well-formed data lines among ls, in order
FragmentsOf(ls) ==
  IF ls = <<>> THEN <<>>
  ELSE (IF \E c \in ContentChars : Head(ls) = DataLine(c)
        THEN << <<Head(ls)[3]>> >> ELSE <<>>) \o FragmentsOf(Tail(ls))

LastEntry == conversationHistory[Len(conversationHistory)]

\* C21: a data line whose payload is not valid JSON is skipped. Working
\* through the lines of a chunk never makes the generator throw; the
\* fragments yielded so far are the contents of the well-formed data lines
\* the loop has taken, in order, whatever malformed lines lie between
\* them; and the reply stored at the end is their concatenation.
C21_BadJsonLineSkipped ==
  /\ lastOp.op \in {"streamChunk", "next"} => sse.pc \in {"read", "yield"}
  /\ sse.yielded = FragmentsOf(sse.seen)
  /\ sse.fullResponse = Flat(sse.yielded)
  /\ sse.pc = "done" => LastEntry = AssistantEntry(1, Flat(sse.yielded))

C21_Witness ==
  /\ sse.pc = "done"
  /\ Len(sse.seen) >= 3
  /\ sse.seen[1] = DataLine("a")
  /\ sse.seen[2] = BadLine
  /\ sse.seen[3] = DataLine("b")
  /\ sse.yielded = << <<"a">>, <<"b">> >>
  /\ LastEntry = AssistantEntry(1, <<"a", "b">>)

\* C24: the fragments yielded, concatenated, equal the in-order
\* concatenation of the contents of all data lines of the response, for
\* every way the body is cut into read chunks, a cut inside a line
\* included; the assistant entry stored holds the same text. Each chunk is
\* split and parsed on its own (lines 134-135): nothing is carried over
\* from one read to the next, so both halves of a line cut by a chunk
\* boundary are passed over.
C24_ReplyIndependentOfChunking ==
  sse.pc = "done"
    => /\ Flat(sse.yielded) = Flat(FragmentsOf(split(sse.response)))
       /\ LastEntry = AssistantEntry(1, Flat(FragmentsOf(split(sse.response))))

\* C25: once the sentinel line 'data: [DONE]' has been taken, no further
\* fragment is yielded and nothing more is added to the reply. The loop
\* only exempts the sentinel line from parsing (line 138); it goes on
\* with the lines and reads that follow.
C25_NothingAfterDone ==
  sse.doneAt # -1
    => /\ Len(sse.yielded) = sse.doneAt
       /\ sse.fullResponse = Flat(SubSeq(sse.yielded, 1, sse.doneAt))

\* -------------------------------------------------- claims, image service
\* C30: when the image endpoint answers with a non-success HTTP status,
\* the error analyzeImageWithGemini throws to its caller carries that
\* status code. The errors of lines 70 and 72 are built without a status
\* code and are thrown inside the try block, whose catch replaces them by
\* GeminiVisionError('Failed to analyze image').
C30_VisionErrorCarriesStatus ==
  (lastOp.op = "analyzeImageFail" /\ lastOp.inp.outcome \in VisionHttpOutcomes)
    => vision[lastOp.sess].err.statusCode = visionStatus(lastOp.inp.outcome)

\* ------------------------------------------ claims, browser speech hook
SpokenOfLatest ==
  {i \in 1..Len(tts.synth) :
     tts.synth[i].started /\ tts.synth[i].call = tts.nSpeak}

\* C33: onEnd is invoked only by the end or error of the last sentence of
\* the latest speak(), when the engine holds nothing more of it, and
\* isSpeaking is not set false while a sentence of the latest speak() is
\* being spoken; this holds too when the event of an utterance cancelled by
\* a later speak() arrives.
C33_OnEndOnlyAfterLastSentence ==
  (lastOp.op \in {"onend", "onerror"} /\ ~tts.stopped)
    => /\ "onEnd" \in lastOp.fx
            => /\ lastOp.sess = tts.nSpeak
               /\ lastOp.inp.size = Len(sentences(tts.text))
               /\ tts.synth = <<>>
       /\ "setIsSpeakingFalse" \in lastOp.fx => SpokenOfLatest = {}

\* C34: the engine holds at most one utterance at a time, and a sentence is
\* handed to it by speak() (the first sentence) or by the end or error of the
\* sentence just before it in the same speak() call.
C34_OneSentenceAtATimeInOrder ==
  /\ Len(tts.synth) <= 1
  /\ "speak" \in lastOp.fx
       => /\ tts.synth # <<>>
          /\ tts.synth[1].call = lastOp.sess
          /\ tts.synth[1].idx =
               (IF lastOp.op = "speak" THEN 1 ELSE lastOp.inp.size + 1)

NonWhitespace(t) == SelectSeq(t, LAMBDA c : c \notin Whitespace)

\* the sentences the hook holds: with the engine, then in the queue
Queued ==
  [i \in 1..Len(tts.synth) |-> tts.synth[i].text] \o tts.speechQueue

\* C35: right after speak(text) the sentences the hook holds, taken in
\* order, have the non-whitespace characters of text, all of them and in
\* the same order, trailing text without closing punctuation included.
C35_QueueHoldsWholeText ==
  (lastOp.op = "speak" /\ tts.isSupported)
    => NonWhitespace(Flat(Queued)) = NonWhitespace(lastOp.inp.text)

\* C36: from stop() until the next speak() the queue is empty, isSpeaking is
\* false, the engine holds no utterance, and no handler that ran handed an
\* utterance to the engine or called onStart, whichever events of the
\* cancelled utterances were delivered.
C36_StoppedStaysSilent ==
  tts.stopped
    => /\ tts.speechQueue = <<>>
       /\ ~tts.isSpeaking
       /\ tts.synth = <<>>
       /\ lastOp.fx \cap {"speak", "onStart"} = {}

\* stop() was called while a started utterance had a sentence waiting behind
\* it, and the end event of the cancelled utterance has been delivered since
C36_Witness ==
  /\ tts.stopped
  /\ lastOp.op = "onend" /\ lastOp.stale
  /\ lastOp.inp.size < Len(sentences(tts.text))

\* ------------------------------------------- claims, server speech hook
EdgePlaying == {i \in EdgeCalls : edge.c[i].audio = "playing"}

EdgeSettleOps ==
  {"edgeFetched", "edgeErrorText", "edgeBlob", "edgePlayed", "edgeAudio"}

\* C37: at most one audio element plays, it belongs to the latest speak(),
\* and a step of a call that a later speak() superseded invokes neither
\* onError nor onEnd.
C37_SupersededCallIsSilent ==
  /\ Cardinality(EdgePlaying) <= 1
  /\ \A i \in EdgePlaying : i = edge.latest
  /\ (lastOp.op \in EdgeSettleOps /\ lastOp.sess < edge.latest)
       => lastOp.fx \cap {"onError", "onEnd"} = {}

\* the latest call is waiting for its reply or its audio, or its audio plays
EdgeInProgress(i) ==
  \/ edge.c[i].pc \in {"fetch", "text", "blob", "play"}
  \/ edge.c[i].audio = "playing"

\* C38: while the latest speak() is in progress and stop() was not called,
\* isSpeaking is true; a step of a superseded or stopped call neither sets
\* it false nor reports an error.
C38_SpeakingWhileLatestInProgress ==
  /\ (edge.latest # NULL /\ ~edge.stopped /\ EdgeInProgress(edge.latest))
       => edge.isSpeaking
  /\ (lastOp.op \in EdgeSettleOps /\ lastOp.stale)
       => lastOp.fx \cap {"setIsSpeakingFalse", "onError"} = {}

\* ------------------------------------------------ claims, sensor poller
PollsInFlight == {p \in Polls : poller.pc[p] \in {"fetch", "json", "resolved"}}

\* C39: once cleanup was called, no later step of the poller calls onData or
\* onError or starts a request or a timer, and no timer is pending; at any
\* time at most one poll of the poller is waiting for fetchSensorData.
C39_CleanupSilencesPoller ==
  /\ Cardinality(PollsInFlight) <= 1
  /\ poller.cleaned
       => /\ lastOp.fx \cap {"onData", "onError", "fetch", "setTimeout"} = {}
          /\ \A p \in Polls : poller.pc[p] # "timer"

\* cleanup came while the request of a poll was out, and the request has
\* settled since
C39_Witness ==
  /\ poller.cleaned
  /\ lastOp.op \in {"pollFetched", "pollParsed", "pollAbortTimer"}
  /\ lastOp.stale
  /\ poller.pc[lastOp.sess] = "done"

PollerFailures == {"http", "network", "abort", "badJson"}

====
